---- MODULE Spec2Model ----
(***************************************************************************)
(* Timeline aggregation engine of elfayadk/storytime.                      *)
(*                                                                         *)
(* Two TimelineProcessor classes exist in the repository:                  *)
(*   "concurrent" : src/src/processors/timeline-processor.ts               *)
(*                  (Promise.allSettled join, inline descending sort)      *)
(*   "sequential" : src/timeline-ui/vite.config.ts, lines 34-233           *)
(*                  (for-loop with try/catch, normalize, deduplicate,      *)
(*                  sortEventsByTimestamp)                                 *)
(* Strings whose characters matter (event content, analysed text) are      *)
(* sequences of UTF-16 code units; timestamps are Luxon DateTimes, kept    *)
(* as [ms |-> epoch milliseconds, zone |-> zone name].                     *)
(***************************************************************************)
EXTENDS Integers, Sequences, FiniteSets, TLC

VARIABLES
    impl,          \* which TimelineProcessor class runs buildTimeline
    faults,        \* whether the adapters of this run may break their contract
    pc,            \* per platform: position of its processEvents / loop turn
    returned,      \* per platform: what the adapter's ingest() produced
    settled,       \* per platform: the settled promise of processEvents
    console,       \* messages written with console.warn / console.error / console.log
    calls,         \* per platform: the calls made on its ingester, in order
    completion,    \* the platforms in the order their turn came to its end
    timelineStats, \* the statistics computed from the list buildTimeline returned
    allEvents,     \* buildTimeline's allEvents after collection (before sort)
    result,        \* the settled promise of buildTimeline
    input,         \* the list handed to deduplicateEvents
    deduplicated,  \* deduplicateEvents(input)
    rededuplicated,\* deduplicateEvents(deduplicated)
    sorted,        \* sortEventsByTimestamp(deduplicated)
    permuted,      \* another input ordering of the same events
    resorted,      \* sortEventsByTimestamp(permuted)
    stage,         \* position of the dedup/merge run
    text,          \* the text handed to analyzeSentiment
    sentiment,     \* the SentimentScore it returned
    geoEvents,     \* the list handed to enhanceEventsWithGeoData
    enhanced,      \* the settled promise of enhanceEventsWithGeoData
    edgeMap,       \* the edge collection handed to addOrUpdateEdge
    discovered,    \* the addOrUpdateEdge calls made on it, in order
    networkEvents, \* the list handed to buildNetworkGraph
    graph,         \* the settled promise of buildNetworkGraph
    statsEvents,   \* the list handed to calculateAdvancedStats
    stats,         \* the TimelineStats it returned
    batch,         \* the list handed to an enrichment stage
    outcome,       \* the settled promise of that stage's call
    configAnalysis,\* config.analysis of the AdvancedTimelineBuilder
    nlpConfig,     \* its nlpConfig: the enabled flag of each NLP stage
    step,          \* the step buildAdvancedTimeline is about to take
    collected,     \* its events: what buildTimeline returned
    enrichedEvents,\* its enrichedEvents
    applied,       \* the stage methods called so far, with the event each was called on
    networkGraph   \* its networkGraph

pipelineVars == <<impl, faults, pc, returned, settled, console, calls, completion, allEvents, result,
                  timelineStats>>
mergeVars == <<input, deduplicated, rededuplicated, sorted, permuted, resorted, stage>>
nlpVars == <<text, sentiment>>
geoVars == <<geoEvents, enhanced>>
networkVars == <<edgeMap, discovered, networkEvents, graph>>
statsVars == <<statsEvents, stats>>
enrichVars == <<batch, outcome>>
advancedVars == <<configAnalysis, nlpConfig, step, collected, enrichedEvents, applied, networkGraph>>
vars == <<impl, faults, pc, returned, settled, console, calls, completion, allEvents, result,
          timelineStats,
          input, deduplicated, rededuplicated, sorted, permuted, resorted, stage,
          text, sentiment,
          geoEvents, enhanced,
          edgeMap, discovered, networkEvents, graph,
          statsEvents, stats,
          batch, outcome,
          configAnalysis, nlpConfig, step, collected, enrichedEvents, applied, networkGraph>>

(***************************************************************************)
(* Bounds                                                                  *)
(***************************************************************************)
\* largest number of events the adapters return in one buildTimeline run
MaxEvents == 2
\* longest list handed to deduplicateEvents on its own
MaxLen == 2
\* largest number of tokens of an analysed text
MaxTokens == 4
\* longest list handed to enhanceEventsWithGeoData
MaxGeoEvents == 1
\* largest number of addOrUpdateEdge calls on one edge collection
MaxCalls == 3
\* longest list handed to buildNetworkGraph
MaxNetworkEvents == 2
\* longest list handed to calculateAdvancedStats
MaxStatsEvents == 2
\* longest list handed to an enrichment stage on its own
MaxBatch == 2
\* longest list buildTimeline hands to buildAdvancedTimeline
MaxTimeline == 1

(***************************************************************************)
(* Configuration and value domains                                         *)
(***************************************************************************)
\* TimelineConfig: platforms in configured order, target timezone
config == [platforms |-> <<"github", "twitter">>, timezone |-> "Europe/Paris"]

Platforms == {config.platforms[i] : i \in 1..Len(config.platforms)}

\* zone name -> UTC offset in minutes at the modelled instants
ZoneOffset == [z \in {"UTC", "Europe/Paris"} |-> IF z = "UTC" THEN 0 ELSE 60]

Zones == DOMAIN ZoneOffset

\* "Hi", " hI ", "yo", "Pushed 3 commits"
ContentHi == <<72, 105>>
ContentHiVariant == <<32, 104, 73, 32>>
ContentYo == <<121, 111>>
\* "{1", whose simpleHash is that of "yo": 123 * 31 + 49 = 121 * 31 + 111
ContentBrace == <<123, 49>>
ContentPushed == <<80, 117, 115, 104, 101, 100, 32, 51, 32, 99, 111, 109, 109, 105, 116, 115>>

\* epoch milliseconds: two instants 4 s apart in one minute, and the
\* first instant of the next minute
Times == {0, 4000, 60000}

Ids == {"a", "b"}

(***************************************************************************)
(* String and DateTime primitives used by the processor                    *)
(***************************************************************************)
\* String.prototype.toLowerCase on the ASCII range
toLowerCase(s) == [i \in 1..Len(s) |-> IF s[i] >= 65 /\ s[i] <= 90 THEN s[i] + 32 ELSE s[i]]

\* white space stripped by String.prototype.trim (ASCII range)
isWhiteSpace(c) == c \in {9, 10, 11, 12, 13, 32}

RECURSIVE trimStart(_)
trimStart(s) == IF s # <<>> /\ isWhiteSpace(Head(s)) THEN trimStart(Tail(s)) ELSE s

RECURSIVE trimEnd(_)
trimEnd(s) == IF s # <<>> /\ isWhiteSpace(s[Len(s)]) THEN trimEnd(SubSeq(s, 1, Len(s) - 1)) ELSE s

\* String.prototype.trim
trim(s) == trimEnd(trimStart(s))

\* DateTime.setZone: same instant, expressed in another zone
setZone(timestamp, zone) == [ms |-> timestamp.ms, zone |-> zone]

\* DateTime.toMillis
toMillis(timestamp) == timestamp.ms

\* a mutant of timeKey: truncation to the hour instead of the minute
timeKeyHour(timestamp) ==
    [local |-> (timestamp.ms - (timestamp.ms % 3600000)) + ZoneOffset[timestamp.zone] * 60000,
     offset |-> ZoneOffset[timestamp.zone]]

\* timestamp.startOf('minute').toISO(): the local wall-clock time of the
\* start of the minute, followed by the zone's UTC offset
timeKey(timestamp) ==
    [local |-> (timestamp.ms - (timestamp.ms % 60000)) + ZoneOffset[timestamp.zone] * 60000,
     offset |-> ZoneOffset[timestamp.zone]]

\* one round of simpleHash's loop on a 32-bit hash kept as two 16-bit
\* halves: hash = ((hash << 5) - hash) + char; hash = hash & hash
hashStep(hash, char) ==
    LET low == 31 * hash.lo + char
        high == 31 * hash.hi + (low \div 65536)
    IN [hi |-> high % 65536, lo |-> low % 65536]

RECURSIVE hashLoop(_, _, _)
hashLoop(str, i, hash) ==
    IF i > Len(str) THEN hash ELSE hashLoop(str, i + 1, hashStep(hash, str[i]))

\* simpleHash: the decimal string of a 32-bit integer, which determines
\* and is determined by the integer's 32 bits
simpleHash(str) == hashLoop(str, 1, [hi |-> 0, lo |-> 0])

(***************************************************************************)
(* Deduplicator                                                            *)
(***************************************************************************)
\* a mutant of dedupeKey: the content is hashed without toLowerCase().trim()
dedupeKeyRawContent(event) ==
    <<event.platform, timeKey(event.timestamp), simpleHash(event.content)>>

\* a mutant of dedupeKey: the time key is the hour
dedupeKeyHour(event) ==
    <<event.platform, timeKeyHour(event.timestamp), simpleHash(trim(toLowerCase(event.content)))>>

\* `${event.platform}-${timeKey}-${contentHash}`
dedupeKey(event) ==
    <<event.platform, timeKey(event.timestamp), simpleHash(trim(toLowerCase(event.content)))>>

\* the for-loop of deduplicateEvents: indexes of the events pushed
RECURSIVE dedupLoop(_, _, _, _)
dedupLoop(events, i, seen, kept) ==
    IF i > Len(events) THEN kept
    ELSE IF dedupeKey(events[i]) \notin seen
         THEN dedupLoop(events, i + 1, seen \cup {dedupeKey(events[i])}, Append(kept, i))
         ELSE dedupLoop(events, i + 1, seen, kept)

\* the loop of a mutant whose test is inverted: if (seen.has(dedupeKey))
\* push, the key added either way
RECURSIVE dedupLoopInverted(_, _, _, _)
dedupLoopInverted(events, i, seen, kept) ==
    IF i > Len(events) THEN kept
    ELSE IF dedupeKey(events[i]) \in seen
         THEN dedupLoopInverted(events, i + 1, seen, Append(kept, i))
         ELSE dedupLoopInverted(events, i + 1, seen \cup {dedupeKey(events[i])}, kept)

\* a mutant of deduplicateEvents: only the repeated events are pushed
deduplicateEventsInverted(events) ==
    LET kept == dedupLoopInverted(events, 1, {}, <<>>)
    IN [n \in 1..Len(kept) |-> events[kept[n]]]

\* a mutant of deduplicateEvents: nothing is dropped
deduplicateEventsKeepAll(events) == events

deduplicateEvents(events) ==
    LET kept == dedupLoop(events, 1, {}, <<>>)
    IN [n \in 1..Len(kept) |-> events[kept[n]]]

(***************************************************************************)
(* Timestamp normalisation and chronological merge                         *)
(***************************************************************************)
\* the mutation: setZone keeps the local wall-clock time, so the instant moves
normalizeTimestampsKeepLocalTime(events) ==
    [i \in 1..Len(events) |->
        [events[i] EXCEPT !.timestamp =
            [ms |-> events[i].timestamp.ms
                    + (ZoneOffset[events[i].timestamp.zone] - ZoneOffset[config.timezone]) * 60000,
             zone |-> config.timezone]]]

\* events.map(event => ({...event, timestamp: event.timestamp.setZone(timezone)}))
normalizeTimestamps(events) ==
    [i \in 1..Len(events) |->
        [events[i] EXCEPT !.timestamp = setZone(events[i].timestamp, config.timezone)]]

\* the comparators handed to Array.prototype.sort
compare(a, b, order) ==
    IF order = "ascending"
    THEN toMillis(a.timestamp) - toMillis(b.timestamp)
    ELSE toMillis(b.timestamp) - toMillis(a.timestamp)

\* insertion of e behind every element that does not compare greater
RECURSIVE insertSorted(_, _, _)
insertSorted(arr, e, order) ==
    IF arr = <<>> THEN <<e>>
    ELSE IF compare(Head(arr), e, order) <= 0
         THEN <<Head(arr)>> \o insertSorted(Tail(arr), e, order)
         ELSE <<e>> \o arr

\* Array.prototype.sort(compareFn): a stable sort (ECMAScript 2019)
RECURSIVE arraySort(_, _)
arraySort(arr, order) ==
    IF arr = <<>> THEN <<>>
    ELSE insertSorted(arraySort(SubSeq(arr, 1, Len(arr) - 1), order), arr[Len(arr)], order)

\* a mutant of sortEventsByTimestamp: most recent first
sortEventsByTimestampDescending(events) == arraySort(events, "descending")

\* a mutant of sortEventsByTimestamp: the comparator always returns 0
sortEventsByTimestampUnsorted(events) == events

sortEventsByTimestamp(events) == arraySort(events, "ascending")

(***************************************************************************)
(* Events                                                                  *)
(***************************************************************************)
\* TimelineEvent as an adapter returns it, in the source's zone
RawEvent(id, platform, content, ms, zone) ==
    [id |-> id, platform |-> platform, content |-> content,
     timestamp |-> [ms |-> ms, zone |-> zone], category |-> "post", metadata |-> [nlp |-> FALSE]]

\* the events that reach deduplicateEvents: normalizeTimestamps has run
NormalizedEvents ==
    {RawEvent(id, p, c, t, config.timezone) :
        id \in Ids, p \in Platforms, c \in {ContentHi, ContentHiVariant, ContentYo}, t \in Times}

\* the orderings of a list: arr read through a permutation of its indexes
Orderings(n) == {f \in [1..n -> 1..n] : \A i, j \in 1..n : f[i] = f[j] => i = j}

(***************************************************************************)
(* Dedup and merge on their own: the list is received, deduplicated        *)
(* (twice, for idempotence), merged, and merged again from another         *)
(* ordering of the same events.                                            *)
(***************************************************************************)
InitMerge ==
    /\ input = <<>>
    /\ deduplicated = <<>>
    /\ rededuplicated = <<>>
    /\ sorted = <<>>
    /\ permuted = <<>>
    /\ resorted = <<>>
    /\ stage = "collect"

Receive(event) ==
    /\ stage = "collect"
    /\ Len(input) < MaxLen
    /\ input' = Append(input, event)
    /\ UNCHANGED <<deduplicated, rededuplicated, sorted, permuted, resorted, stage>>
    /\ UNCHANGED <<pipelineVars, nlpVars, geoVars, networkVars, statsVars, enrichVars, advancedVars>>

Deduplicate ==
    /\ stage = "collect"
    /\ deduplicated' = deduplicateEvents(input)
    /\ stage' = "deduplicated"
    /\ UNCHANGED <<input, rededuplicated, sorted, permuted, resorted>>
    /\ UNCHANGED <<pipelineVars, nlpVars, geoVars, networkVars, statsVars, enrichVars, advancedVars>>

DeduplicateAgain ==
    /\ stage = "deduplicated"
    /\ rededuplicated' = deduplicateEvents(deduplicated)
    /\ stage' = "rededuplicated"
    /\ UNCHANGED <<input, deduplicated, sorted, permuted, resorted>>
    /\ UNCHANGED <<pipelineVars, nlpVars, geoVars, networkVars, statsVars, enrichVars, advancedVars>>

Merge ==
    /\ stage = "deduplicated"
    /\ sorted' = sortEventsByTimestamp(deduplicated)
    /\ stage' = "sorted"
    /\ UNCHANGED <<input, deduplicated, rededuplicated, permuted, resorted>>
    /\ UNCHANGED <<pipelineVars, nlpVars, geoVars, networkVars, statsVars, enrichVars, advancedVars>>

MergeReordered ==
    /\ stage = "sorted"
    /\ \E f \in Orderings(Len(deduplicated)) :
          /\ permuted' = [i \in 1..Len(deduplicated) |-> deduplicated[f[i]]]
          /\ resorted' = sortEventsByTimestamp([i \in 1..Len(deduplicated) |-> deduplicated[f[i]]])
    /\ stage' = "resorted"
    /\ UNCHANGED <<input, deduplicated, rededuplicated, sorted>>
    /\ UNCHANGED <<pipelineVars, nlpVars, geoVars, networkVars, statsVars, enrichVars, advancedVars>>

NextMerge ==
    \/ \E event \in NormalizedEvents : Receive(event)
    \/ Deduplicate
    \/ DeduplicateAgain
    \/ Merge
    \/ MergeReordered

\* events of one source whose contents are "yo", " YO " or "{1"
HashedEvents ==
    {RawEvent(id, p, c, t, config.timezone) :
        id \in Ids, p \in Platforms, c \in {ContentYo, <<32, 89, 79, 32>>, ContentBrace}, t \in Times}

\* deduplicateEvents over lists of such events
NextHashed ==
    \/ \E event \in HashedEvents : Receive(event)
    \/ Deduplicate

(***************************************************************************)
(* Ingestion: adapters, processEvents / ingestFromPlatform, buildTimeline  *)
(***************************************************************************)
\* a raw event that lacks its timestamp
MalformedEvent(id, platform, content) ==
    [id |-> id, platform |-> platform, content |-> content, category |-> "post",
     metadata |-> [nlp |-> FALSE]]

wellFormed(event) == "timestamp" \in DOMAIN event

\* event.timestamp.setZone(...) throws a TypeError on an event without timestamp
normalizeThrows(events) == \E i \in 1..Len(events) : ~wellFormed(events[i])

\* the events adapter p can return, all in the source's zone
AdapterEvents(p, zone) ==
    {RawEvent(id, p, c, t, zone) : id \in Ids, c \in {ContentPushed, ContentYo}, t \in Times}

\* the batches of at most n events adapter p can return: TimelineEvent[] as
\* declared, or (might) with events that lack their timestamp among them
AdapterBatches(p, n, might) ==
    UNION {[1..k -> AdapterEvents(p, zone)
                    \cup (IF might THEN {MalformedEvent("a", p, ContentYo)} ELSE {})] :
              k \in 0..n, zone \in Zones}

\* number of events the adapters have returned so far in this run
RECURSIVE returnedCount(_, _)
returnedCount(ret, i) ==
    IF i > Len(config.platforms) THEN 0
    ELSE Len(ret[config.platforms[i]].events) + returnedCount(ret, i + 1)

\* the platforms whose ingester is built only from present credentials:
\* processEvents throws without them, ingestFromPlatform returns []
needsCredentials(class, p) ==
    IF class = "concurrent"
    THEN p \in {"twitter", "reddit", "pastebin"}
    ELSE p \in {"twitter", "reddit", "github", "pastebin"}

\* a mutant of collectFulfilled: one rejection empties the collection
RECURSIVE collectFailFast(_, _)
collectFailFast(results, i) ==
    IF \E p \in Platforms : results[p].status = "rejected" THEN <<>>
    ELSE IF i > Len(config.platforms) THEN <<>>
    ELSE results[config.platforms[i]].value \o collectFailFast(results, i + 1)

\* a mutant of collectFulfilled: the fulfilled values concatenated in the
\* order the adapters came to their end, as handlers pushing onto a shared
\* list would leave them
RECURSIVE collectAsCompleted(_, _)
collectAsCompleted(results, i) ==
    IF i > Len(completion) THEN <<>>
    ELSE (IF results[completion[i]].status = "fulfilled"
          THEN results[completion[i]].value ELSE <<>>)
         \o collectAsCompleted(results, i + 1)

\* results.forEach((result, index) => ...): the fulfilled values
\* concatenated in the order of config.platforms, from index i on
RECURSIVE collectFulfilled(_, _)
collectFulfilled(results, i) ==
    IF i > Len(config.platforms) THEN <<>>
    ELSE (IF results[config.platforms[i]].status = "fulfilled"
          THEN results[config.platforms[i]].value ELSE <<>>)
         \o collectFulfilled(results, i + 1)

\* NLPProcessor.process of src/src/processors: every event gets metadata.nlp
nlpProcess(events) ==
    [i \in 1..Len(events) |-> [events[i] EXCEPT !.metadata = [nlp |-> TRUE]]]

InitPipeline ==
    /\ impl \in {"concurrent", "sequential"}
    /\ faults \in BOOLEAN
    /\ pc = [p \in Platforms |-> "start"]
    /\ returned = [p \in Platforms |-> [status |-> "none", events |-> <<>>]]
    /\ settled = [p \in Platforms |-> [status |-> "pending", value |-> <<>>]]
    /\ console = {}
    /\ calls = [p \in Platforms |-> <<>>]
    /\ completion = <<>>
    /\ allEvents = <<>>
    /\ result = [status |-> "pending", events |-> <<>>]
    /\ timelineStats = [status |-> "pending"]

\* processEvents up to its first suspension on ingest: the switch that
\* builds the ingester (throws without credentials), then testConnection,
\* whose failure is only a warning
TestConnection(p) ==
    /\ impl = "concurrent"
    /\ pc[p] = "start"
    /\ \E configured \in BOOLEAN, connected \in BOOLEAN :
          IF needsCredentials(impl, p) /\ ~configured
          THEN /\ pc' = [pc EXCEPT ![p] = "settled"]
               /\ settled' = [settled EXCEPT ![p] = [status |-> "rejected", value |-> <<>>]]
               /\ console' = console \cup {<<"error", "processEvents", p>>}
               /\ calls' = calls
               /\ completion' = Append(completion, p)
          ELSE /\ pc' = [pc EXCEPT ![p] = "ingest"]
               /\ settled' = settled
               /\ completion' = completion
               /\ console' = IF connected THEN console
                             ELSE console \cup {<<"warn", "testConnection", p>>}
               /\ calls' = [calls EXCEPT ![p] = <<"new", "testConnection">>]
    /\ UNCHANGED <<impl, faults, returned, allEvents, result, timelineStats>>
    /\ UNCHANGED <<mergeVars, nlpVars, geoVars, networkVars, statsVars, enrichVars, advancedVars>>

\* processEvents from the ingest call to its return: events normalized to
\* the target zone, or the rejection (of ingest, or the TypeError of the
\* normalizing map) logged and rethrown; or no return at all
Ingest(p) ==
    /\ impl = "concurrent"
    /\ pc[p] = "ingest"
    /\ calls' = [calls EXCEPT ![p] = Append(@, "ingest")]
    /\ \/ /\ returned' = [returned EXCEPT ![p] = [status |-> "rejected", events |-> <<>>]]
          /\ settled' = [settled EXCEPT ![p] = [status |-> "rejected", value |-> <<>>]]
          /\ console' = console \cup {<<"error", "processEvents", p>>}
          /\ pc' = [pc EXCEPT ![p] = "settled"]
          /\ completion' = Append(completion, p)
       \/ \E events \in AdapterBatches(p, MaxEvents - returnedCount(returned, 1), faults) :
             /\ returned' = [returned EXCEPT ![p] = [status |-> "fulfilled", events |-> events]]
             /\ settled' = [settled EXCEPT ![p] =
                              IF normalizeThrows(events)
                              THEN [status |-> "rejected", value |-> <<>>]
                              ELSE [status |-> "fulfilled", value |-> normalizeTimestamps(events)]]
             /\ console' = IF normalizeThrows(events)
                           THEN console \cup {<<"error", "processEvents", p>>}
                           ELSE console
             /\ pc' = [pc EXCEPT ![p] = "settled"]
             /\ completion' = Append(completion, p)
       \/ /\ faults
          /\ pc' = [pc EXCEPT ![p] = "hung"]   \* the promise of ingest never settles
          /\ UNCHANGED <<returned, settled, console, completion>>
    /\ UNCHANGED <<impl, faults, allEvents, result, timelineStats>>
    /\ UNCHANGED <<mergeVars, nlpVars, geoVars, networkVars, statsVars, enrichVars, advancedVars>>

\* buildTimeline of the concurrent class after Promise.allSettled: collect
\* the fulfilled results, sort most recent first, NLP if configured, return
AllSettled ==
    /\ impl = "concurrent"
    /\ result.status = "pending"
    /\ \A p \in Platforms : pc[p] = "settled"
    /\ allEvents' = collectFulfilled(settled, 1)
    /\ console' = console \cup
          {<<"error", "buildTimeline", p>> : p \in {q \in Platforms : settled[q].status = "rejected"}}
    /\ \E analysis \in BOOLEAN, nlpFails \in BOOLEAN :
          result' = [status |-> "fulfilled",
                     events |-> IF analysis /\ ~nlpFails
                                THEN nlpProcess(arraySort(collectFulfilled(settled, 1), "descending"))
                                ELSE arraySort(collectFulfilled(settled, 1), "descending")]
    /\ UNCHANGED <<impl, faults, pc, returned, settled, calls, completion, timelineStats>>
    /\ UNCHANGED <<mergeVars, nlpVars, geoVars, networkVars, statsVars, enrichVars, advancedVars>>

\* one turn of the sequential class's for-loop: ingestFromPlatform(p)
\* inside try/catch, the events pushed onto allEvents
IngestFromPlatform(p) ==
    /\ impl = "sequential"
    /\ pc[p] = "start"
    /\ \A i, j \in 1..Len(config.platforms) :
          (i < j /\ config.platforms[j] = p) => pc[config.platforms[i]] = "settled"
    /\ \E configured \in BOOLEAN :
          IF needsCredentials(impl, p) /\ ~configured
          THEN /\ returned' = returned
               /\ settled' = [settled EXCEPT ![p] = [status |-> "fulfilled", value |-> <<>>]]
               /\ console' = console \cup {<<"log", "ingested", p>>}
               /\ allEvents' = allEvents
               /\ calls' = calls
               /\ pc' = [pc EXCEPT ![p] = "settled"]
               /\ completion' = Append(completion, p)
          ELSE /\ calls' = [calls EXCEPT ![p] = <<"new", "ingest">>]
               /\ \/ /\ returned' = [returned EXCEPT ![p] = [status |-> "rejected", events |-> <<>>]]
                     /\ settled' = [settled EXCEPT ![p] = [status |-> "rejected", value |-> <<>>]]
                     /\ console' = console \cup {<<"log", "failed", p>>}
                     /\ allEvents' = allEvents
                     /\ pc' = [pc EXCEPT ![p] = "settled"]
                     /\ completion' = Append(completion, p)
                  \/ \E events \in AdapterBatches(p, MaxEvents - returnedCount(returned, 1), faults) :
                        /\ returned' = [returned EXCEPT ![p] = [status |-> "fulfilled", events |-> events]]
                        /\ settled' = [settled EXCEPT ![p] = [status |-> "fulfilled", value |-> events]]
                        /\ console' = console \cup {<<"log", "ingested", p>>}
                        /\ allEvents' = allEvents \o events
                        /\ pc' = [pc EXCEPT ![p] = "settled"]
                        /\ completion' = Append(completion, p)
                  \/ /\ faults
                     /\ pc' = [pc EXCEPT ![p] = "hung"]   \* the promise of ingest never settles
                     /\ UNCHANGED <<returned, settled, console, completion, allEvents>>
    /\ UNCHANGED <<impl, faults, result, timelineStats>>
    /\ UNCHANGED <<mergeVars, nlpVars, geoVars, networkVars, statsVars, enrichVars, advancedVars>>

\* buildTimeline of the sequential class after the loop: normalize (a
\* TypeError there rejects the call), deduplicate, sort chronologically,
\* return
ProcessCollected ==
    /\ impl = "sequential"
    /\ result.status = "pending"
    /\ \A p \in Platforms : pc[p] = "settled"
    /\ result' = IF normalizeThrows(allEvents)
                  THEN [status |-> "rejected", events |-> <<>>]
                  ELSE [status |-> "fulfilled",
                        events |-> sortEventsByTimestamp(deduplicateEvents(normalizeTimestamps(allEvents)))]
    /\ UNCHANGED <<impl, faults, pc, returned, settled, console, calls, completion, allEvents, timelineStats>>
    /\ UNCHANGED <<mergeVars, nlpVars, geoVars, networkVars, statsVars, enrichVars, advancedVars>>

NextPipeline ==
    \/ \E p \in Platforms : TestConnection(p)
    \/ \E p \in Platforms : Ingest(p)
    \/ AllSettled
    \/ \E p \in Platforms : IngestFromPlatform(p)
    \/ ProcessCollected

(***************************************************************************)
(* Sentiment scorer (NLPProcessor.analyzeSentiment)                        *)
(***************************************************************************)
\* the positiveWords list of analyzeSentiment
positiveWords ==
    {<<103, 111, 111, 100>>, <<103, 114, 101, 97, 116>>,   \* good great
     <<101, 120, 99, 101, 108, 108, 101, 110, 116>>, <<97, 109, 97, 122, 105, 110, 103>>,   \* excellent amazing
     <<97, 119, 101, 115, 111, 109, 101>>, <<102, 97, 110, 116, 97, 115, 116, 105, 99>>,   \* awesome fantastic
     <<119, 111, 110, 100, 101, 114, 102, 117, 108>>, <<108, 105, 107, 101>>,   \* wonderful like
     <<108, 111, 118, 101>>, <<104, 97, 112, 112, 121>>,   \* love happy
     <<103, 108, 97, 100>>, <<112, 111, 115, 105, 116, 105, 118, 101>>,   \* glad positive
     <<110, 105, 99, 101>>, <<98, 101, 97, 117, 116, 105, 102, 117, 108>>,   \* nice beautiful
     <<112, 101, 114, 102, 101, 99, 116>>, <<98, 101, 115, 116>>,   \* perfect best
     <<98, 101, 116, 116, 101, 114>>, <<105, 109, 112, 114, 111, 118, 101, 100>>,   \* better improved
     <<105, 109, 112, 114, 101, 115, 115, 105, 118, 101>>, <<116, 104, 97, 110, 107>>,   \* impressive thank
     <<116, 104, 97, 110, 107, 115>>, <<97, 112, 112, 114, 101, 99, 105, 97, 116, 101, 100>>,   \* thanks appreciated
     <<101, 120, 99, 105, 116, 105, 110, 103>>, <<101, 120, 99, 105, 116, 101, 100>>,   \* exciting excited
     <<119, 105, 110>>, <<119, 105, 110, 110, 105, 110, 103>>,   \* win winning
     <<115, 117, 99, 99, 101, 115, 115>>, <<115, 117, 99, 99, 101, 115, 115, 102, 117, 108>>   \* success successful
    }

\* the negativeWords list of analyzeSentiment
negativeWords ==
    {<<98, 97, 100>>, <<116, 101, 114, 114, 105, 98, 108, 101>>,   \* bad terrible
     <<97, 119, 102, 117, 108>>, <<104, 111, 114, 114, 105, 98, 108, 101>>,   \* awful horrible
     <<119, 111, 114, 115, 116>>, <<112, 111, 111, 114>>,   \* worst poor
     <<110, 101, 103, 97, 116, 105, 118, 101>>, <<104, 97, 116, 101>>,   \* negative hate
     <<100, 105, 115, 108, 105, 107, 101>>, <<115, 97, 100>>,   \* dislike sad
     <<117, 110, 104, 97, 112, 112, 121>>, <<97, 110, 103, 114, 121>>,   \* unhappy angry
     <<97, 110, 110, 111, 121, 101, 100>>, <<100, 105, 115, 97, 112, 112, 111, 105, 110, 116, 101, 100>>,   \* annoyed disappointed
     <<102, 97, 105, 108>>, <<102, 97, 105, 108, 101, 100>>,   \* fail failed
     <<102, 97, 105, 108, 117, 114, 101>>, <<112, 114, 111, 98, 108, 101, 109>>,   \* failure problem
     <<105, 115, 115, 117, 101>>, <<98, 117, 103>>,   \* issue bug
     <<101, 114, 114, 111, 114>>, <<119, 114, 111, 110, 103>>,   \* error wrong
     <<98, 114, 111, 107, 101, 110>>, <<117, 115, 101, 108, 101, 115, 115>>,   \* broken useless
     <<100, 105, 102, 102, 105, 99, 117, 108, 116>>, <<104, 97, 114, 100>>,   \* difficult hard
     <<99, 111, 110, 102, 117, 115, 105, 110, 103>>, <<102, 114, 117, 115, 116, 114, 97, 116, 101, 100>>   \* confusing frustrated
    }

\* \w of the regular expression: [A-Za-z0-9_]
isWordChar(c) ==
    \/ c >= 48 /\ c <= 57
    \/ c >= 65 /\ c <= 90
    \/ c >= 97 /\ c <= 122
    \/ c = 95

\* str.match(/\b(\w+)\b/g) || []: the maximal runs of word characters;
\* word is the run being read
RECURSIVE matchWords(_, _, _)
matchWords(str, i, word) ==
    IF i > Len(str) THEN (IF word = <<>> THEN <<>> ELSE <<word>>)
    ELSE IF isWordChar(str[i]) THEN matchWords(str, i + 1, Append(word, str[i]))
    ELSE (IF word = <<>> THEN <<>> ELSE <<word>>) \o matchWords(str, i + 1, <<>>)

\* the counting loop: positiveCount after the words from index i on
RECURSIVE positiveCount(_, _)
positiveCount(words, i) ==
    IF i > Len(words) THEN 0
    ELSE (IF words[i] \in positiveWords THEN 1 ELSE 0) + positiveCount(words, i + 1)

\* the counting loop: negativeCount after the words from index i on
RECURSIVE negativeCount(_, _)
negativeCount(words, i) ==
    IF i > Len(words) THEN 0
    ELSE (IF words[i] \notin positiveWords /\ words[i] \in negativeWords THEN 1 ELSE 0)
         + negativeCount(words, i + 1)

Min(a, b) == IF a <= b THEN a ELSE b

Max(a, b) == IF a >= b THEN a ELSE b

\* the unclamped score as the fraction num/den, den > 0
sentimentScore(positive, negative, totalWords) ==
    IF totalWords > 0
    THEN [num |-> positive - negative, den |-> Min(totalWords, positive + negative + 5)]
    ELSE [num |-> 0, den |-> 1]

\* a mutant of sentimentLabel: thresholds at 0 instead of 0.1 and -0.1
sentimentLabelAtZero(score) ==
    IF score.num >= 0 THEN "positive"
    ELSE "negative"

\* a mutant of sentimentLabel: score >= 0.1 and score <= -0.1
sentimentLabelInclusive(score) ==
    IF 10 * score.num >= score.den THEN "positive"
    ELSE IF 10 * score.num <= -score.den THEN "negative"
    ELSE "neutral"

\* score > 0.1 -> positive, score < -0.1 -> negative, else neutral
sentimentLabel(score) ==
    IF 10 * score.num > score.den THEN "positive"
    ELSE IF 10 * score.num < -score.den THEN "negative"
    ELSE "neutral"

\* Math.max(-1, Math.min(1, score))
clampScore(score) ==
    IF score.num > score.den THEN [num |-> 1, den |-> 1]
    ELSE IF score.num < -score.den THEN [num |-> -1, den |-> 1]
    ELSE score

analyzeSentiment(str) ==
    LET words == matchWords(toLowerCase(str), 1, <<>>)
        positive == positiveCount(words, 1)
        negative == negativeCount(words, 1)
        totalWords == Len(words)
        score == sentimentScore(positive, negative, totalWords)
    IN [score |-> clampScore(score),
        magnitude |-> [num |-> (positive + negative) * 5, den |-> Max(1, totalWords)],
        label |-> sentimentLabel(score)]

\* the words a text is written from: love, amazing, Bug, hate, this
Vocabulary ==
    {<<108, 111, 118, 101>>, <<97, 109, 97, 122, 105, 110, 103>>, <<66, 117, 103>>,
     <<104, 97, 116, 101>>, <<116, 104, 105, 115>>}

\* "I love this new feature, amazing work!"
TextLoveFeature ==
    <<73, 32, 108, 111, 118, 101, 32, 116, 104, 105, 115, 32, 110, 101, 119, 32, 102, 101, 97, 116, 117, 114, 101, 44, 32, 97, 109, 97, 122, 105, 110, 103, 32, 119, 111, 114, 107, 33>>

\* ten tokens, three positive and two negative: the score is exactly 0.1
\* "love love love hate hate this this this this this"
TextScoreTenth ==
    <<108, 111, 118, 101, 32, 108, 111, 118, 101, 32, 108, 111, 118, 101, 32, 104, 97, 116, 101, 32, 104, 97, 116, 101, 32, 116, 104, 105, 115, 32, 116, 104, 105, 115, 32, 116, 104, 105, 115, 32, 116, 104, 105, 115, 32, 116, 104, 105, 115>>

\* ten tokens, two positive and three negative: the score is exactly -0.1
\* "hate hate hate love love this this this this this"
TextScoreMinusTenth ==
    <<104, 97, 116, 101, 32, 104, 97, 116, 101, 32, 104, 97, 116, 101, 32, 108, 111, 118, 101, 32, 108, 111, 118, 101, 32, 116, 104, 105, 115, 32, 116, 104, 105, 115, 32, 116, 104, 105, 115, 32, 116, 104, 105, 115, 32, 116, 104, 105, 115>>

SampleTexts == {TextLoveFeature, TextScoreTenth, TextScoreMinusTenth}

InitSentiment ==
    /\ text = <<>>
    /\ sentiment = [label |-> "none"]

\* one more word of the text, after a space
WriteWord(word) ==
    /\ sentiment.label = "none"
    /\ Len(matchWords(text, 1, <<>>)) < MaxTokens
    /\ text' = (IF text = <<>> THEN <<>> ELSE text \o <<32>>) \o word
    /\ UNCHANGED sentiment
    /\ UNCHANGED <<pipelineVars, mergeVars, geoVars, networkVars, statsVars, enrichVars, advancedVars>>

\* an exclamation mark, at most one per text
WritePunctuation ==
    /\ sentiment.label = "none"
    /\ \A i \in 1..Len(text) : text[i] # 33
    /\ text' = Append(text, 33)
    /\ UNCHANGED sentiment
    /\ UNCHANGED <<pipelineVars, mergeVars, geoVars, networkVars, statsVars, enrichVars, advancedVars>>

\* a whole text handed over at once
WriteSample(sample) ==
    /\ sentiment.label = "none"
    /\ text = <<>>
    /\ text' = sample
    /\ UNCHANGED sentiment
    /\ UNCHANGED <<pipelineVars, mergeVars, geoVars, networkVars, statsVars, enrichVars, advancedVars>>

AnalyzeSentiment ==
    /\ sentiment.label = "none"
    /\ sentiment' = analyzeSentiment(text)
    /\ UNCHANGED text
    /\ UNCHANGED <<pipelineVars, mergeVars, geoVars, networkVars, statsVars, enrichVars, advancedVars>>

NextSentiment ==
    \/ \E word \in Vocabulary : WriteWord(word)
    \/ WritePunctuation
    \/ \E sample \in SampleTexts : WriteSample(sample)
    \/ AnalyzeSentiment

(***************************************************************************)
(* GeoAnalyzer (src/cli/advanced-cli.ts, lines 501-919)                    *)
(* Coordinates are kept in ten-thousandths of a degree.                    *)
(***************************************************************************)
\* the cities and countries of initializeLocationDatabase, in insertion order
gazetteerEntries ==
    <<
     [name |-> <<110, 101, 119, 32, 121, 111, 114, 107>>, lat |-> 407128, lng |-> -740060, code |-> "US"],   \* new york
     [name |-> <<108, 111, 115, 32, 97, 110, 103, 101, 108, 101, 115>>, lat |-> 340522, lng |-> -1182437, code |-> "US"],   \* los angeles
     [name |-> <<99, 104, 105, 99, 97, 103, 111>>, lat |-> 418781, lng |-> -876298, code |-> "US"],   \* chicago
     [name |-> <<104, 111, 117, 115, 116, 111, 110>>, lat |-> 297604, lng |-> -953698, code |-> "US"],   \* houston
     [name |-> <<112, 104, 111, 101, 110, 105, 120>>, lat |-> 334484, lng |-> -1120740, code |-> "US"],   \* phoenix
     [name |-> <<112, 104, 105, 108, 97, 100, 101, 108, 112, 104, 105, 97>>, lat |-> 399526, lng |-> -751652, code |-> "US"],   \* philadelphia
     [name |-> <<115, 97, 110, 32, 97, 110, 116, 111, 110, 105, 111>>, lat |-> 294241, lng |-> -984936, code |-> "US"],   \* san antonio
     [name |-> <<115, 97, 110, 32, 100, 105, 101, 103, 111>>, lat |-> 327157, lng |-> -1171611, code |-> "US"],   \* san diego
     [name |-> <<100, 97, 108, 108, 97, 115>>, lat |-> 327767, lng |-> -967970, code |-> "US"],   \* dallas
     [name |-> <<115, 97, 110, 32, 102, 114, 97, 110, 99, 105, 115, 99, 111>>, lat |-> 377749, lng |-> -1224194, code |-> "US"],   \* san francisco
     [name |-> <<115, 101, 97, 116, 116, 108, 101>>, lat |-> 476062, lng |-> -1223321, code |-> "US"],   \* seattle
     [name |-> <<98, 111, 115, 116, 111, 110>>, lat |-> 423601, lng |-> -710589, code |-> "US"],   \* boston
     [name |-> <<97, 116, 108, 97, 110, 116, 97>>, lat |-> 337490, lng |-> -843880, code |-> "US"],   \* atlanta
     [name |-> <<109, 105, 97, 109, 105>>, lat |-> 257617, lng |-> -801918, code |-> "US"],   \* miami
     [name |-> <<108, 111, 110, 100, 111, 110>>, lat |-> 515074, lng |-> -1278, code |-> "GB"],   \* london
     [name |-> <<112, 97, 114, 105, 115>>, lat |-> 488566, lng |-> 23522, code |-> "FR"],   \* paris
     [name |-> <<116, 111, 107, 121, 111>>, lat |-> 356762, lng |-> 1396503, code |-> "JP"],   \* tokyo
     [name |-> <<98, 101, 105, 106, 105, 110, 103>>, lat |-> 399042, lng |-> 1164074, code |-> "CN"],   \* beijing
     [name |-> <<115, 121, 100, 110, 101, 121>>, lat |-> -338688, lng |-> 1512093, code |-> "AU"],   \* sydney
     [name |-> <<114, 105, 111, 32, 100, 101, 32, 106, 97, 110, 101, 105, 114, 111>>, lat |-> -229068, lng |-> -431729, code |-> "BR"],   \* rio de janeiro
     [name |-> <<109, 101, 120, 105, 99, 111, 32, 99, 105, 116, 121>>, lat |-> 194326, lng |-> -991332, code |-> "MX"],   \* mexico city
     [name |-> <<99, 97, 105, 114, 111>>, lat |-> 300444, lng |-> 312357, code |-> "EG"],   \* cairo
     [name |-> <<109, 111, 115, 99, 111, 119>>, lat |-> 557558, lng |-> 376173, code |-> "RU"],   \* moscow
     [name |-> <<98, 101, 114, 108, 105, 110>>, lat |-> 525200, lng |-> 134050, code |-> "DE"],   \* berlin
     [name |-> <<109, 97, 100, 114, 105, 100>>, lat |-> 404168, lng |-> -37038, code |-> "ES"],   \* madrid
     [name |-> <<114, 111, 109, 101>>, lat |-> 419028, lng |-> 124964, code |-> "IT"],   \* rome
     [name |-> <<116, 111, 114, 111, 110, 116, 111>>, lat |-> 436532, lng |-> -793832, code |-> "CA"],   \* toronto
     [name |-> <<109, 117, 109, 98, 97, 105>>, lat |-> 190760, lng |-> 728777, code |-> "IN"],   \* mumbai
     [name |-> <<115, 105, 110, 103, 97, 112, 111, 114, 101>>, lat |-> 13521, lng |-> 1038198, code |-> "SG"],   \* singapore
     [name |-> <<100, 117, 98, 97, 105>>, lat |-> 252048, lng |-> 552708, code |-> "AE"],   \* dubai
     [name |-> <<117, 110, 105, 116, 101, 100, 32, 115, 116, 97, 116, 101, 115>>, lat |-> 370902, lng |-> -957129, code |-> "US"],   \* united states
     [name |-> <<117, 115, 97>>, lat |-> 370902, lng |-> -957129, code |-> "US"],   \* usa
     [name |-> <<117, 107>>, lat |-> 553781, lng |-> -34360, code |-> "GB"],   \* uk
     [name |-> <<117, 110, 105, 116, 101, 100, 32, 107, 105, 110, 103, 100, 111, 109>>, lat |-> 553781, lng |-> -34360, code |-> "GB"],   \* united kingdom
     [name |-> <<99, 97, 110, 97, 100, 97>>, lat |-> 561304, lng |-> -1063468, code |-> "CA"],   \* canada
     [name |-> <<97, 117, 115, 116, 114, 97, 108, 105, 97>>, lat |-> -252744, lng |-> 1337751, code |-> "AU"],   \* australia
     [name |-> <<103, 101, 114, 109, 97, 110, 121>>, lat |-> 511657, lng |-> 104515, code |-> "DE"],   \* germany
     [name |-> <<102, 114, 97, 110, 99, 101>>, lat |-> 462276, lng |-> 22137, code |-> "FR"],   \* france
     [name |-> <<105, 116, 97, 108, 121>>, lat |-> 418719, lng |-> 125674, code |-> "IT"],   \* italy
     [name |-> <<115, 112, 97, 105, 110>>, lat |-> 404637, lng |-> -37492, code |-> "ES"],   \* spain
     [name |-> <<106, 97, 112, 97, 110>>, lat |-> 362048, lng |-> 1382529, code |-> "JP"],   \* japan
     [name |-> <<99, 104, 105, 110, 97>>, lat |-> 358617, lng |-> 1041954, code |-> "CN"],   \* china
     [name |-> <<105, 110, 100, 105, 97>>, lat |-> 205937, lng |-> 789629, code |-> "IN"],   \* india
     [name |-> <<98, 114, 97, 122, 105, 108>>, lat |-> -142350, lng |-> -519253, code |-> "BR"],   \* brazil
     [name |-> <<114, 117, 115, 115, 105, 97>>, lat |-> 615240, lng |-> 1053188, code |-> "RU"],   \* russia
     [name |-> <<109, 101, 120, 105, 99, 111>>, lat |-> 236345, lng |-> -1025528, code |-> "MX"]   \* mexico
    >>

\* JavaScript null, the "nothing found" result of the lookups
null == [isNull |-> TRUE]

\* obj[key] = value on a copy of obj
withField(obj, key, value) ==
    [k \in DOMAIN obj \cup {key} |-> IF k = key THEN value ELSE obj[k]]

\* name.split(' ').map(w => w.charAt(0).toUpperCase() + w.slice(1)).join(' ')
titleCase(name) ==
    [i \in 1..Len(name) |->
        IF (i = 1 \/ name[i - 1] = 32) /\ name[i] >= 97 /\ name[i] <= 122
        THEN name[i] - 32 ELSE name[i]]

\* locationDatabase.get(key): the value of the last db.set with that key
databaseGet(key) ==
    LET hits == {n \in 1..Len(gazetteerEntries) : gazetteerEntries[n].name = key}
    IN IF hits = {} THEN null
       ELSE LET e == gazetteerEntries[CHOOSE n \in hits : \A m \in hits : m <= n]
            IN [lat |-> e.lat, lng |-> e.lng, name |-> titleCase(e.name), countryCode |-> e.code]

lookupLocationByName(name) == databaseGet(trim(toLowerCase(name)))

\* GeoAnalysisConfig after the constructor's defaults; minConfidence in hundredths
geoConfig == [enabled |-> TRUE, minConfidence |-> 70]

\* parseFloat of a number: the number itself
parseFloat(number) == number

\* a number is truthy unless it is 0
truthyNumber(obj, key) == key \in DOMAIN obj /\ obj[key] # 0

extractLocationFromMetadata(event) ==
    LET metadata == event.metadata
        fromTwitter ==
            IF event.platform = "twitter" /\ "geo" \in DOMAIN metadata
            THEN LET geo == metadata.geo
                 IN IF "coordinates" \in DOMAIN geo /\ Len(geo.coordinates) >= 2
                    THEN [lat |-> geo.coordinates[1], lng |-> geo.coordinates[2],
                          name |-> IF "place_name" \in DOMAIN geo THEN geo.place_name
                                   ELSE <<84, 119, 105, 116, 116, 101, 114, 32, 76, 111, 99, 97, 116, 105, 111, 110>>]   \* 'Twitter Location'
                    ELSE IF "place" \in DOMAIN geo /\ "full_name" \in DOMAIN geo.place
                    THEN lookupLocationByName(geo.place.full_name)
                    ELSE null
            ELSE null
        fromReddit ==
            IF event.platform = "reddit" /\ "subreddit" \in DOMAIN metadata
            THEN LET subreddit == toLowerCase(metadata.subreddit)   \* 114, 47 is 'r/'
                 IN IF ~(Len(subreddit) >= 2 /\ SubSeq(subreddit, 1, 2) = <<114, 47>>)
                    THEN null
                    ELSE lookupLocationByName(SubSeq(subreddit, 3, Len(subreddit)))
            ELSE null
    IN IF truthyNumber(metadata, "lat") /\ truthyNumber(metadata, "lng")
       THEN [lat |-> parseFloat(metadata.lat), lng |-> parseFloat(metadata.lng),
             name |-> IF "locationName" \in DOMAIN metadata THEN metadata.locationName
                      ELSE <<85, 110, 107, 110, 111, 119, 110, 32, 76, 111, 99, 97, 116, 105, 111, 110>>]   \* 'Unknown Location'
       ELSE IF fromTwitter # null THEN fromTwitter
       ELSE fromReddit

\* the entity type 'location', in code units as the other entity types
typeLocation == <<108, 111, 99, 97, 116, 105, 111, 110>>

\* locationEntities.reduce: the first entity of the highest confidence
RECURSIVE bestEntity(_, _, _)
bestEntity(entities, i, prev) ==
    IF i > Len(entities) THEN prev
    ELSE bestEntity(entities, i + 1,
                    IF entities[i].confidence > prev.confidence THEN entities[i] ELSE prev)

extractLocationFromEntities(event) ==
    IF "entities" \notin DOMAIN event \/ Len(event.entities) = 0 THEN null
    ELSE LET minConfidence == IF geoConfig.minConfidence # 0 THEN geoConfig.minConfidence ELSE 70
             locationEntities ==
                 SelectSeq(event.entities,
                           LAMBDA entity : entity.type = typeLocation /\ entity.confidence >= minConfidence)
         IN IF Len(locationEntities) = 0 THEN null
            ELSE LET bestLocation == bestEntity(locationEntities, 2, locationEntities[1])
                 IN IF /\ "metadata" \in DOMAIN bestLocation
                       /\ truthyNumber(bestLocation.metadata, "lat")
                       /\ truthyNumber(bestLocation.metadata, "lng")
                    THEN [lat |-> bestLocation.metadata.lat, lng |-> bestLocation.metadata.lng,
                          name |-> bestLocation.text]
                    ELSE lookupLocationByName(bestLocation.text)

\* content.split(/\s+/); word is the piece being read
RECURSIVE splitWhitespace(_, _, _)
splitWhitespace(str, i, word) ==
    IF i > Len(str) THEN <<word>>
    ELSE IF isWhiteSpace(str[i])
    THEN (IF i > 1 /\ isWhiteSpace(str[i - 1]) THEN <<>> ELSE <<word>>)
         \o splitWhitespace(str, i + 1, <<>>)
    ELSE splitWhitespace(str, i + 1, Append(word, str[i]))

\* words[i].replace(/[^\w\s]/g, '')
removePunctuation(word) == SelectSeq(word, LAMBDA c : isWordChar(c) \/ isWhiteSpace(c))

\* /^[A-Z][a-z]+$/.test(word)
isCapitalized(word) ==
    /\ Len(word) >= 2
    /\ word[1] >= 65 /\ word[1] <= 90
    /\ \A i \in 2..Len(word) : word[i] >= 97 /\ word[i] <= 122

\* the loop collecting potentialLocations from word i on
RECURSIVE potentialLocations(_, _)
potentialLocations(words, i) ==
    IF i > Len(words) THEN <<>>
    ELSE LET word == removePunctuation(words[i])
         IN (IF Len(word) < 3 THEN <<>>
             ELSE (IF isCapitalized(word) THEN <<word>> ELSE <<>>)
                  \o (IF i < Len(words) /\ isCapitalized(word) /\ isCapitalized(words[i + 1])
                      THEN <<word \o <<32>> \o words[i + 1]>> ELSE <<>>))
            \o potentialLocations(words, i + 1)

\* the first potential location found in the database
RECURSIVE firstLookup(_, _)
firstLookup(names, i) ==
    IF i > Len(names) THEN null
    ELSE IF lookupLocationByName(names[i]) # null THEN lookupLocationByName(names[i])
    ELSE firstLookup(names, i + 1)

extractLocationFromContent(event) ==
    IF Len(event.content) = 0 THEN null
    ELSE firstLookup(potentialLocations(splitWhitespace(event.content, 1, <<>>), 1), 1)

\* a mutant of enhanceEvent: a location already there is looked up again
enhanceEventOverwriting(event) ==
    IF extractLocationFromMetadata(event) # null
    THEN withField(event, "location", extractLocationFromMetadata(event))
    ELSE event

\* one turn of the loop of enhanceEventsWithGeoData
enhanceEvent(event) ==
    IF "location" \in DOMAIN event THEN event
    ELSE IF extractLocationFromMetadata(event) # null
    THEN withField(event, "location", extractLocationFromMetadata(event))
    ELSE IF extractLocationFromEntities(event) # null
    THEN withField(event, "location", extractLocationFromEntities(event))
    ELSE IF extractLocationFromContent(event) # null
    THEN withField(event, "location", extractLocationFromContent(event))
    ELSE event

enhanceEventsWithGeoData(events) ==
    IF ~geoConfig.enabled THEN events
    ELSE [n \in 1..Len(events) |-> enhanceEvent(events[n])]

\* platform and metadata of the events handed to the Geo Tagger
GeoSources ==
    {[platform |-> "github", metadata |-> [url |-> "u"]],
     [platform |-> "github", metadata |-> [lat |-> 0, lng |-> 50000]],
     [platform |-> "twitter", metadata |-> [url |-> "u"]],
     [platform |-> "twitter", metadata |-> [lat |-> 525200, lng |-> 134050, locationName |-> <<66, 101, 114, 108, 105, 110>>]],
     [platform |-> "twitter", metadata |-> [geo |-> [coordinates |-> <<356762, 1396503>>]]],
     [platform |-> "twitter", metadata |-> [geo |-> [place |-> [full_name |-> <<84, 111, 107, 121, 111>>]]]],
     [platform |-> "twitter", metadata |-> [geo |-> [place |-> [full_name |-> <<80, 97, 114, 105, 115, 44, 32, 70, 114, 97, 110, 99, 101>>]]]],
     [platform |-> "reddit", metadata |-> [subreddit |-> <<114, 47, 76, 111, 110, 100, 111, 110>>]],
     [platform |-> "reddit", metadata |-> [subreddit |-> <<76, 111, 110, 100, 111, 110>>]],
     [platform |-> "reddit", metadata |-> [subreddit |-> <<114, 47, 65, 116, 108, 97, 110, 116, 105, 115>>]]}

\* the entities lists of those events
GeoEntities ==
    {<<>>,
     <<[type |-> typeLocation, text |-> <<80, 97, 114, 105, 115>>, confidence |-> 90]>>,
     <<[type |-> typeLocation, text |-> <<80, 97, 114, 105, 115>>, confidence |-> 50]>>,
     <<[type |-> <<112, 101, 114, 115, 111, 110>>, text |-> <<80, 97, 114, 105, 115>>, confidence |-> 90]>>,
     <<[type |-> typeLocation, text |-> <<65, 116, 108, 97, 110, 116, 105, 115>>, confidence |-> 90]>>,
     <<[type |-> typeLocation, text |-> <<108, 111, 110, 100, 111, 110>>, confidence |-> 75],
       [type |-> typeLocation, text |-> <<65, 116, 108, 97, 110, 116, 105, 115>>, confidence |-> 90,
        metadata |-> [lat |-> 100000, lng |-> 200000]]>>}

\* "Visiting Paris today."
ContentParis == <<86, 105, 115, 105, 116, 105, 110, 103, 32, 80, 97, 114, 105, 115, 32, 116, 111, 100, 97, 121, 46>>
\* "Flying to New York tomorrow"
ContentNewYork == <<70, 108, 121, 105, 110, 103, 32, 116, 111, 32, 78, 101, 119, 32, 89, 111, 114, 107, 32, 116, 111, 109, 111, 114, 114, 111, 119>>
\* "We met in Par-is"
ContentParIs == <<87, 101, 32, 109, 101, 116, 32, 105, 110, 32, 80, 97, 114, 45, 105, 115>>
\* "Hello Atlantis"
ContentAtlantis == <<72, 101, 108, 108, 111, 32, 65, 116, 108, 97, 110, 116, 105, 115>>
\* "paris in lowercase"
ContentLowercase == <<112, 97, 114, 105, 115, 32, 105, 110, 32, 108, 111, 119, 101, 114, 99, 97, 115, 101>>

GeoContents ==
    {<<>>, ContentParis, ContentNewYork, ContentParIs, ContentAtlantis, ContentLowercase}

\* a location set before the Geo Tagger runs
PresetLocation == [lat |-> 10000, lng |-> 20000, name |-> <<80, 114, 101, 115, 101, 116>>]

GeoEvents ==
    {[platform |-> s.platform, metadata |-> s.metadata, content |-> c, entities |-> e] :
        s \in GeoSources, c \in GeoContents, e \in GeoEntities}
    \cup {[platform |-> s.platform, metadata |-> s.metadata, content |-> c, entities |-> e,
           location |-> PresetLocation] :
        s \in GeoSources, c \in GeoContents, e \in GeoEntities}

InitGeo ==
    /\ geoEvents = <<>>
    /\ enhanced = [status |-> "pending", events |-> <<>>]

\* one more event in the list handed to enhanceEventsWithGeoData
GeoReceive(event) ==
    /\ enhanced.status = "pending"
    /\ Len(geoEvents) < MaxGeoEvents
    /\ geoEvents' = Append(geoEvents, event)
    /\ UNCHANGED enhanced
    /\ UNCHANGED <<pipelineVars, mergeVars, nlpVars, networkVars, statsVars, enrichVars, advancedVars>>

EnhanceEventsWithGeoData ==
    /\ enhanced.status = "pending"
    /\ enhanced' = [status |-> "fulfilled", events |-> enhanceEventsWithGeoData(geoEvents)]
    /\ UNCHANGED geoEvents
    /\ UNCHANGED <<pipelineVars, mergeVars, nlpVars, networkVars, statsVars, enrichVars, advancedVars>>

NextGeo ==
    \/ \E event \in GeoEvents : GeoReceive(event)
    \/ EnhanceEventsWithGeoData

(***************************************************************************)
(* NetworkAnalyzer (src/cli/advanced-cli.ts, lines 920-1560)               *)
(* A JavaScript Map is the sequence of its [key, value] entries in         *)
(* insertion order.  Node ids, edge types and edge ids are strings that    *)
(* are concatenated and compared, so they are sequences of code units.     *)
(***************************************************************************)
mapHas(map, key) == \E n \in 1..Len(map) : map[n].key = key

mapGet(map, key) == map[CHOOSE n \in 1..Len(map) : map[n].key = key].value

\* map.set(key, value): an existing key keeps its position
mapSet(map, key, value) ==
    IF mapHas(map, key)
    THEN [n \in 1..Len(map) |-> IF map[n].key = key THEN [key |-> key, value |-> value] ELSE map[n]]
    ELSE Append(map, [key |-> key, value |-> value])

\* Array.from(map.values())
mapValues(map) == [n \in 1..Len(map) |-> map[n].value]

\* a < b for strings: comparison by code units
RECURSIVE stringLess(_, _)
stringLess(a, b) ==
    IF b = <<>> THEN FALSE
    ELSE IF a = <<>> THEN TRUE
    ELSE IF Head(a) # Head(b) THEN Head(a) < Head(b)
    ELSE stringLess(Tail(a), Tail(b))

\* NetworkConfig after the constructor's defaults
networkConfig ==
    [enabled |-> TRUE,
     relationTypes |-> {"mention", "reply", "quote", "cooccurrence"},
     minEdgeWeight |-> 1]

\* edge types, as they enter the edge id
created == <<99, 114, 101, 97, 116, 101, 100>>
contains == <<99, 111, 110, 116, 97, 105, 110, 115>>
mentioned == <<109, 101, 110, 116, 105, 111, 110, 101, 100>>
mentions == <<109, 101, 110, 116, 105, 111, 110, 115>>
used == <<117, 115, 101, 100>>
cooccurs_with == <<99, 111, 111, 99, 99, 117, 114, 115, 95, 119, 105, 116, 104>>
\* relation types of an event's relations
reply_to == <<114, 101, 112, 108, 121, 95, 116, 111>>
quote == <<113, 117, 111, 116, 101>>
reference == <<114, 101, 102, 101, 114, 101, 110, 99, 101>>
thread == <<116, 104, 114, 101, 97, 100>>

\* a property value as a new edge holds it
scalar(value) == [isArray |-> FALSE, items |-> <<value>>]

\* Object.entries(properties).forEach(...): a key met again becomes an array
mergeProperties(old, properties) ==
    [key \in DOMAIN old \cup DOMAIN properties |->
        IF key \notin DOMAIN properties THEN old[key]
        ELSE IF key \notin DOMAIN old THEN properties[key]
        ELSE [isArray |-> TRUE, items |-> old[key].items \o properties[key].items]]

\* the mutation: the edge id is built from source and target as given
addOrUpdateEdgeUnsorted(edges, source, target, type, weight, properties) ==
    LET edgeId == source \o <<124>> \o type \o <<124>> \o target
    IN IF mapHas(edges, edgeId)
       THEN LET edge == mapGet(edges, edgeId)
            IN mapSet(edges, edgeId,
                      [edge EXCEPT !.weight = @ + weight,
                                   !.properties = mergeProperties(@, properties)])
       ELSE mapSet(edges, edgeId,
                   [source |-> source, target |-> target, type |-> type,
                    weight |-> weight, properties |-> properties])

addOrUpdateEdge(edges, source, target, type, weight, properties) ==
    LET sortedSource == IF stringLess(target, source) THEN target ELSE source
        sortedTarget == IF stringLess(target, source) THEN source ELSE target
        edgeId == sortedSource \o <<124>> \o type \o <<124>> \o sortedTarget   \* 124 is '|'
    IN IF mapHas(edges, edgeId)
       THEN LET edge == mapGet(edges, edgeId)
            IN mapSet(edges, edgeId,
                      [edge EXCEPT !.weight = @ + weight,
                                   !.properties = mergeProperties(@, properties)])
       ELSE mapSet(edges, edgeId,
                   [source |-> source, target |-> target, type |-> type,
                    weight |-> weight, properties |-> properties])

mapRelationType(relationType) ==
    IF relationType = reply_to THEN "reply"
    ELSE IF relationType = quote THEN "quote"
    ELSE IF relationType = reference THEN "mention"
    ELSE IF relationType = thread THEN "reply"
    ELSE "other"

\* event.timestamp.toISO(): local date-time to the millisecond and UTC offset
toISO(timestamp) ==
    [local |-> timestamp.ms + ZoneOffset[timestamp.zone] * 60000,
     offset |-> ZoneOffset[timestamp.zone]]

\* `user:${username}`, `event:${id}`, `entity:${type}:${text}`
userIdOf(username) == <<117, 115, 101, 114, 58>> \o username
eventIdOf(id) == <<101, 118, 101, 110, 116, 58>> \o id
entityIdOf(entity) == <<101, 110, 116, 105, 116, 121, 58>> \o entity.type \o <<58>> \o entity.text

\* nodes.set of a new node, or weight += 1 on the node already there
addOrCountNode(nodes, id, node) ==
    IF ~mapHas(nodes, id) THEN mapSet(nodes, id, node)
    ELSE mapSet(nodes, id, [mapGet(nodes, id) EXCEPT !.weight = @ + 1])

\* nodes.set of a new node only
addNodeIfAbsent(nodes, id, node) ==
    IF ~mapHas(nodes, id) THEN mapSet(nodes, id, node) ELSE nodes

\* the loop of processEntities from entity i on; g is [nodes, edges]
RECURSIVE processEntities(_, _, _)
processEntities(event, i, g) ==
    IF i > Len(event.entities) THEN g
    ELSE LET entity == event.entities[i]
             eventId == eventIdOf(event.id)
             userId == userIdOf(event.username)
             entityId == entityIdOf(entity)
             nodes1 == addOrCountNode(g.nodes, entityId,
                           [id |-> entityId, type |-> "entity", label |-> entity.text,
                            properties |-> [type |-> entity.type], weight |-> 1])
             edges1 == addOrUpdateEdge(g.edges, eventId, entityId, contains, 1,
                                       [confidence |-> scalar(entity.confidence)])
             edges2 == addOrUpdateEdge(edges1, userId, entityId, mentioned, 1,
                                       [timestamp |-> scalar(toISO(event.timestamp))])
             mentionedUser == IF entity.text # <<>> /\ Head(entity.text) = 64   \* startsWith('@')
                              THEN Tail(entity.text) ELSE entity.text
             mentionedUserId == userIdOf(mentionedUser)
             nodes2 == addNodeIfAbsent(nodes1, mentionedUserId,
                           [id |-> mentionedUserId, type |-> "user", label |-> mentionedUser,
                            properties |-> [platform |-> event.platform], weight |-> 1])
             edges3 == addOrUpdateEdge(edges2, userId, mentionedUserId, mentioned, 1,
                                       [timestamp |-> scalar(toISO(event.timestamp)),
                                        eventId |-> scalar(event.id)])
         IN IF entity.confidence < 60 THEN processEntities(event, i + 1, g)
            ELSE IF entity.type = <<109, 101, 110, 116, 105, 111, 110>>
            THEN processEntities(event, i + 1, [nodes |-> nodes2, edges |-> edges3])
            ELSE processEntities(event, i + 1, [nodes |-> nodes1, edges |-> edges2])

\* the loop of processRelations from relation i on
RECURSIVE processRelations(_, _, _)
processRelations(event, i, g) ==
    IF i > Len(event.relations) THEN g
    ELSE LET relation == event.relations[i]
         IN IF mapRelationType(relation.type) \notin networkConfig.relationTypes
            THEN processRelations(event, i + 1, g)
            ELSE processRelations(event, i + 1,
                     [g EXCEPT !.edges =
                         addOrUpdateEdge(@, eventIdOf(event.id), eventIdOf(relation.targetId),
                                         relation.type, 1,
                                         [context |-> scalar(relation.context)])])

\* content.matchAll(/\B(<marker>[a-zA-Z0-9_]+)\b/g) from index i on: the
\* marker, not preceded by a word character, with the run of word
\* characters after it
RECURSIVE wordRunEnd(_, _)
wordRunEnd(str, i) ==
    IF i <= Len(str) /\ isWordChar(str[i]) THEN wordRunEnd(str, i + 1) ELSE i - 1

RECURSIVE matchAllTagged(_, _, _)
matchAllTagged(str, i, marker) ==
    IF i > Len(str) THEN <<>>
    ELSE IF /\ str[i] = marker
            /\ (i = 1 \/ ~isWordChar(str[i - 1]))
            /\ wordRunEnd(str, i + 1) > i
    THEN <<SubSeq(str, i, wordRunEnd(str, i + 1))>>
         \o matchAllTagged(str, wordRunEnd(str, i + 1) + 1, marker)
    ELSE matchAllTagged(str, i + 1, marker)

\* the first loop of processMentionsInContent from match i on
RECURSIVE processMentionMatches(_, _, _, _)
processMentionMatches(event, matches, i, g) ==
    IF i > Len(matches) THEN g
    ELSE LET mentionedUser == Tail(matches[i])
             mentionedUserId == userIdOf(mentionedUser)
             nodes1 == addNodeIfAbsent(g.nodes, mentionedUserId,
                           [id |-> mentionedUserId, type |-> "user", label |-> mentionedUser,
                            properties |-> [platform |-> event.platform], weight |-> 1])
             edges1 == addOrUpdateEdge(g.edges, eventIdOf(event.id), mentionedUserId, mentions, 1,
                                       [timestamp |-> scalar(toISO(event.timestamp))])
             edges2 == addOrUpdateEdge(edges1, userIdOf(event.username), mentionedUserId, mentioned, 1,
                                       [timestamp |-> scalar(toISO(event.timestamp)),
                                        eventId |-> scalar(event.id)])
         IN processMentionMatches(event, matches, i + 1, [nodes |-> nodes1, edges |-> edges2])

\* its second loop from match i on
RECURSIVE processHashtagMatches(_, _, _, _)
processHashtagMatches(event, matches, i, g) ==
    IF i > Len(matches) THEN g
    ELSE LET hashtag == matches[i]
             hashtagId == <<101, 110, 116, 105, 116, 121, 58, 104, 97, 115, 104, 116, 97, 103, 58>> \o hashtag
             nodes1 == addOrCountNode(g.nodes, hashtagId,
                           [id |-> hashtagId, type |-> "entity", label |-> hashtag,
                            properties |-> [type |-> <<104, 97, 115, 104, 116, 97, 103>>], weight |-> 1])
             edges1 == addOrUpdateEdge(g.edges, eventIdOf(event.id), hashtagId, contains, 1,
                                       [timestamp |-> scalar(toISO(event.timestamp))])
             edges2 == addOrUpdateEdge(edges1, userIdOf(event.username), hashtagId, used, 1,
                                       [timestamp |-> scalar(toISO(event.timestamp))])
         IN processHashtagMatches(event, matches, i + 1, [nodes |-> nodes1, edges |-> edges2])

processMentionsInContent(event, g) ==
    processHashtagMatches(event, matchAllTagged(event.content, 1, 35), 1,
        processMentionMatches(event, matchAllTagged(event.content, 1, 64), 1, g))

\* entitySet of one event: the ids of its entities of confidence >= 0.6,
\* each once, in order of first occurrence
RECURSIVE entitySetOf(_, _, _)
entitySetOf(entities, i, set) ==
    IF i > Len(entities) THEN set
    ELSE IF entities[i].confidence >= 60
            /\ \A n \in 1..Len(set) : set[n] # entityIdOf(entities[i])
    THEN entitySetOf(entities, i + 1, Append(set, entityIdOf(entities[i])))
    ELSE entitySetOf(entities, i + 1, set)

\* the first loop of processEntityCooccurrences: eventEntityMap, keyed by event.id
RECURSIVE collectEventEntities(_, _, _)
collectEventEntities(events, i, eventEntityMap) ==
    IF i > Len(events) THEN eventEntityMap
    ELSE IF Len(events[i].entities) = 0 THEN collectEventEntities(events, i + 1, eventEntityMap)
    ELSE IF Len(entitySetOf(events[i].entities, 1, <<>>)) > 1
    THEN collectEventEntities(events, i + 1,
             mapSet(eventEntityMap, events[i].id, entitySetOf(events[i].entities, 1, <<>>)))
    ELSE collectEventEntities(events, i + 1, eventEntityMap)

\* the inner loops over i < j, from the pair (i, j) on
RECURSIVE pairEdges(_, _, _, _, _)
pairEdges(entityIds, eventId, i, j, edges) ==
    IF i > Len(entityIds) THEN edges
    ELSE IF j > Len(entityIds) THEN pairEdges(entityIds, eventId, i + 1, i + 2, edges)
    ELSE pairEdges(entityIds, eventId, i, j + 1,
             addOrUpdateEdge(edges, entityIds[i], entityIds[j], cooccurs_with, 1,
                             [eventId |-> scalar(eventId)]))

\* the second loop, from entry n of eventEntityMap on
RECURSIVE cooccurrenceEdges(_, _, _)
cooccurrenceEdges(eventEntityMap, n, edges) ==
    IF n > Len(eventEntityMap) THEN edges
    ELSE cooccurrenceEdges(eventEntityMap, n + 1,
             pairEdges(eventEntityMap[n].value, eventEntityMap[n].key, 1, 2, edges))

processEntityCooccurrences(events, g) ==
    [g EXCEPT !.edges = cooccurrenceEdges(collectEventEntities(events, 1, <<>>), 1, @)]

\* one turn of the loop of processEventsForNetwork
processEventForNetwork(event, g) ==
    LET userId == userIdOf(event.username)
        eventId == eventIdOf(event.id)
        nodes1 == addOrCountNode(g.nodes, userId,
                      [id |-> userId, type |-> "user", label |-> event.username,
                       properties |-> [platform |-> event.platform], weight |-> 1])
        nodes2 == mapSet(nodes1, eventId,
                      [id |-> eventId, type |-> "event", label |-> event.title,
                       properties |-> [platform |-> event.platform, category |-> event.category,
                                       timestamp |-> toISO(event.timestamp), url |-> event.url],
                       weight |-> 1])
        edges1 == addOrUpdateEdge(g.edges, userId, eventId, created, 1,
                                  [timestamp |-> scalar(toISO(event.timestamp))])
        g1 == [nodes |-> nodes2, edges |-> edges1]
        g2 == IF Len(event.entities) > 0 THEN processEntities(event, 1, g1) ELSE g1
        g3 == IF Len(event.relations) > 0 THEN processRelations(event, 1, g2) ELSE g2
    IN IF Len(event.entities) = 0 /\ Len(event.content) > 0
       THEN processMentionsInContent(event, g3)
       ELSE g3

RECURSIVE processEventsLoop(_, _, _)
processEventsLoop(events, i, g) ==
    IF i > Len(events) THEN g
    ELSE processEventsLoop(events, i + 1, processEventForNetwork(events[i], g))

processEventsForNetwork(events) ==
    LET g == processEventsLoop(events, 1, [nodes |-> <<>>, edges |-> <<>>])
    IN IF "cooccurrence" \in networkConfig.relationTypes
       THEN processEntityCooccurrences(events, g)
       ELSE g

\* 2 * |E| / (|V| * (|V| - 1)) as a fraction
calculateNetworkDensity(nodeCount, edgeCount) ==
    IF nodeCount <= 1 THEN [num |-> 0, den |-> 1]
    ELSE [num |-> 2 * edgeCount, den |-> nodeCount * (nodeCount - 1)]

\* the node ids by node type; entities by their properties.type
detectCommunities(nodes) ==
    LET idsWhere(test(_)) == mapValues(SelectSeq(nodes, LAMBDA entry : test(entry.value)))
        entityTypes == {nodes[n].value.properties.type :
                           n \in {m \in 1..Len(nodes) : nodes[m].value.type = "entity"}}
    IN [users |-> [n \in 1..Len(idsWhere(LAMBDA node : node.type = "user")) |->
                      idsWhere(LAMBDA node : node.type = "user")[n].id],
        events |-> [n \in 1..Len(idsWhere(LAMBDA node : node.type = "event")) |->
                      idsWhere(LAMBDA node : node.type = "event")[n].id],
        entities |-> [type \in entityTypes |->
                      LET ofType == idsWhere(LAMBDA node : node.type = "entity"
                                                           /\ node.properties.type = type)
                      IN [n \in 1..Len(ofType) |-> ofType[n].id]]]

buildNetworkGraph(events) ==
    IF ~networkConfig.enabled
    THEN [nodes |-> <<>>, edges |-> <<>>,
          stats |-> [nodeCount |-> 0, edgeCount |-> 0, density |-> [num |-> 0, den |-> 1],
                     communities |-> <<>>]]
    ELSE LET g == processEventsForNetwork(events)
             minEdgeWeight == IF networkConfig.minEdgeWeight # 0 THEN networkConfig.minEdgeWeight ELSE 1
             filteredEdges == SelectSeq(mapValues(g.edges), LAMBDA edge : edge.weight >= minEdgeWeight)
         IN [nodes |-> mapValues(g.nodes),
             edges |-> filteredEdges,
             stats |-> [nodeCount |-> Len(g.nodes),
                        edgeCount |-> Len(filteredEdges),
                        density |-> calculateNetworkDensity(Len(g.nodes), Len(filteredEdges)),
                        communities |-> detectCommunities(g.nodes)]]

\* names of the modelled events: users, ids, entities
alice == <<97, 108, 105, 99, 101>>
bob == <<98, 111, 98>>
Acme == [type |-> <<111, 114, 103, 97, 110, 105, 122, 97, 116, 105, 111, 110>>, text |-> <<65, 99, 109, 101>>, confidence |-> 65]
Bob == [type |-> <<112, 101, 114, 115, 111, 110>>, text |-> <<66, 111, 98, 32, 83, 116, 111, 110, 101>>, confidence |-> 70]
Dan == [type |-> <<112, 101, 114, 115, 111, 110>>, text |-> <<68, 97, 110, 32, 82, 101, 101, 100>>, confidence |-> 50]
Carol == [type |-> <<109, 101, 110, 116, 105, 111, 110>>, text |-> <<64, 99, 97, 114, 111, 108>>, confidence |-> 95]

\* the entities lists of the events handed to buildNetworkGraph
NetworkEntities ==
    {<<>>, <<Acme, Bob>>, <<Bob, Acme>>, <<Acme, Bob, Acme>>, <<Acme, Dan>>, <<Acme, Carol>>}

\* "hi @bob #tag"
ContentMention == <<104, 105, 32, 64, 98, 111, 98, 32, 35, 116, 97, 103>>

\* the relations lists: none, or a reply to event b
NetworkRelations ==
    {<<>>, <<[type |-> reply_to, targetId |-> <<98>>, context |-> <<>>]>>}

NetworkEvents ==
    {[id |-> id, username |-> IF id = <<97>> THEN alice ELSE bob,
      platform |-> "twitter", category |-> "post",
      title |-> ContentHi, url |-> "u", content |-> ContentMention,
      timestamp |-> [ms |-> 0, zone |-> config.timezone],
      entities |-> e, relations |-> r] :
        id \in {<<97>>, <<98>>}, e \in NetworkEntities, r \in NetworkRelations}

\* the endpoints and types of the addOrUpdateEdge calls made on their own
EdgeEndpoints == {userIdOf(alice), eventIdOf(<<97>>), entityIdOf(Acme)}
EdgeTypes == {mentioned, cooccurs_with}

InitNetwork ==
    /\ edgeMap = <<>>
    /\ discovered = <<>>
    /\ networkEvents = <<>>
    /\ graph = [status |-> "pending"]

\* one call of addOrUpdateEdge on the edge collection
AddOrUpdateEdge(source, target, type) ==
    /\ Len(discovered) < MaxCalls
    /\ edgeMap' = addOrUpdateEdge(edgeMap, source, target, type, 1, [eventId |-> scalar(Len(discovered))])
    /\ discovered' = Append(discovered, [source |-> source, target |-> target, type |-> type])
    /\ UNCHANGED <<networkEvents, graph>>
    /\ UNCHANGED <<pipelineVars, mergeVars, nlpVars, geoVars, statsVars, enrichVars, advancedVars>>

\* one more event in the list handed to buildNetworkGraph
NetworkReceive(event) ==
    /\ graph.status = "pending"
    /\ Len(networkEvents) < MaxNetworkEvents
    /\ networkEvents' = Append(networkEvents, event)
    /\ UNCHANGED <<edgeMap, discovered, graph>>
    /\ UNCHANGED <<pipelineVars, mergeVars, nlpVars, geoVars, statsVars, enrichVars, advancedVars>>

BuildNetworkGraph ==
    /\ graph.status = "pending"
    /\ graph' = [status |-> "fulfilled", value |-> buildNetworkGraph(networkEvents)]
    /\ UNCHANGED <<edgeMap, discovered, networkEvents>>
    /\ UNCHANGED <<pipelineVars, mergeVars, nlpVars, geoVars, statsVars, enrichVars, advancedVars>>

NextEdges ==
    \E source, target \in EdgeEndpoints, type \in EdgeTypes : AddOrUpdateEdge(source, target, type)

NextNetwork ==
    \/ \E event \in NetworkEvents : NetworkReceive(event)
    \/ BuildNetworkGraph

(***************************************************************************)
(* AdvancedTimelineBuilder statistics (src/unnamed/part_014, lines 338-620)*)
(* The modelled events carry no entities and no topics, so the entity and  *)
(* topic sections of calculateAdvancedStats, which run only if some event  *)
(* has them, are skipped.  Sentiment scores are in hundredths.             *)
(***************************************************************************)
\* the local time of a DateTime in its zone, in milliseconds since 1970-01-01T00:00 local
localMillis(timestamp) == timestamp.ms + ZoneOffset[timestamp.zone] * 60000

\* floor division, also for negative numerators
floorDiv(a, b) == IF a >= 0 THEN a \div b ELSE -((-a + b - 1) \div b)

\* timestamp.hour
hourOf(timestamp) == floorDiv(localMillis(timestamp), 3600000) - 24 * floorDiv(localMillis(timestamp), 86400000)

\* timestamp.weekday: 1 is Monday, 7 is Sunday; 1970-01-01 was a Thursday
weekdayOf(timestamp) ==
    LET day == floorDiv(localMillis(timestamp), 86400000)
    IN ((day + 3) - 7 * floorDiv(day + 3, 7)) + 1

\* timestamp.month, for local dates from 1969-12-01 to 1970-02-28
monthOf(timestamp) ==
    LET day == floorDiv(localMillis(timestamp), 86400000)
    IN IF day < 0 THEN 12 ELSE IF day < 31 THEN 1 ELSE 2

\* timestamp.year, for the same dates
yearOf(timestamp) ==
    IF floorDiv(localMillis(timestamp), 86400000) < 0 THEN 1969 ELSE 1970

\* i.toString() for 0 <= i < 100
toString(i) == IF i < 10 THEN <<48 + i>> ELSE <<48 + (i \div 10), 48 + (i % 10)>>

days == <<"Sunday", "Monday", "Tuesday", "Wednesday", "Thursday", "Friday", "Saturday">>

months == <<"January", "February", "March", "April", "May", "June",
            "July", "August", "September", "October", "November", "December">>

\* the sum of the sentiment scores of the events at the positions in set
RECURSIVE sumScores(_, _)
sumScores(events, set) ==
    IF set = {} THEN 0
    ELSE LET n == CHOOSE k \in set : TRUE
         IN events[n].sentiment.score + sumScores(events, set \ {n})

\* timestamp.toFormat('yyyy-MM'), as the pair it spells
dateKeyOf(timestamp) == [year |-> yearOf(timestamp), month |-> monthOf(timestamp)]

\* a.date.localeCompare(b.date) < 0 for two 'yyyy-MM' keys
dateBefore(a, b) == a.year < b.year \/ (a.year = b.year /\ a.month < b.month)

\* insertion of entry behind every entry whose date is not after its date
RECURSIVE insertByDate(_, _)
insertByDate(arr, entry) ==
    IF arr = <<>> THEN <<entry>>
    ELSE IF dateBefore(entry.date, arr[Len(arr)].date)
    THEN Append(insertByDate(SubSeq(arr, 1, Len(arr) - 1), entry), arr[Len(arr)])
    ELSE Append(arr, entry)

\* the dates of sentimentByDate in insertion order, from event i on
RECURSIVE sentimentDates(_, _, _)
sentimentDates(events, i, dates) ==
    IF i > Len(events) THEN dates
    ELSE IF "sentiment" \in DOMAIN events[i]
            /\ \A n \in 1..Len(dates) : dates[n] # dateKeyOf(events[i].timestamp)
    THEN sentimentDates(events, i + 1, Append(dates, dateKeyOf(events[i].timestamp)))
    ELSE sentimentDates(events, i + 1, dates)

\* .map(([date, data]) => ({date, score: data.sum / data.count})).sort(...)
RECURSIVE sentimentTrends(_, _, _, _)
sentimentTrends(events, dates, n, trends) ==
    IF n > Len(dates) THEN trends
    ELSE LET ofDate == {k \in 1..Len(events) :
                           "sentiment" \in DOMAIN events[k] /\ dateKeyOf(events[k].timestamp) = dates[n]}
         IN sentimentTrends(events, dates, n + 1,
                insertByDate(trends, [date |-> dates[n],
                                      score |-> [num |-> sumScores(events, ofDate),
                                                 den |-> Cardinality(ofDate)]]))

\* a mutant of sentimentStats: an event without sentiment counts as neutral
sentimentStatsDefaultNeutral(events) ==
    LET withSentiment == {n \in 1..Len(events) : "sentiment" \in DOMAIN events[n]}
    IN [average |-> IF Cardinality(withSentiment) > 0
                    THEN [num |-> sumScores(events, withSentiment), den |-> Cardinality(withSentiment)]
                    ELSE [num |-> 0, den |-> 1],
        distribution |->
            [label \in {"positive", "negative", "neutral"} |->
                Cardinality({n \in withSentiment : events[n].sentiment.label = label})
                + (IF label = "neutral" THEN Len(events) - Cardinality(withSentiment) ELSE 0)],
        trends |-> sentimentTrends(events, sentimentDates(events, 1, <<>>), 1, <<>>)]

\* the sentiment section of calculateAdvancedStats
sentimentStats(events) ==
    LET withSentiment == {n \in 1..Len(events) : "sentiment" \in DOMAIN events[n]}
    IN [average |-> IF Cardinality(withSentiment) > 0
                    THEN [num |-> sumScores(events, withSentiment), den |-> Cardinality(withSentiment)]
                    ELSE [num |-> 0, den |-> 1],
        distribution |->
            [label \in {"positive", "negative", "neutral"} |->
                Cardinality({n \in withSentiment : events[n].sentiment.label = label})],
        trends |-> sentimentTrends(events, sentimentDates(events, 1, <<>>), 1, <<>>)]

createEmptyStats ==
    [totalEvents |-> 0,
     platforms |-> <<>>,
     categories |-> <<>>,
     dateRange |-> [start |-> null, end |-> null]]

calculateAdvancedStats(events) ==
    IF Len(events) = 0 THEN createEmptyStats
    ELSE LET basic ==
                 [totalEvents |-> Len(events),
                  platforms |-> [p \in {events[n].platform : n \in 1..Len(events)} |->
                                    Len(SelectSeq(events, LAMBDA e : e.platform = p))],
                  categories |-> [c \in {events[n].category : n \in 1..Len(events)} |->
                                    Len(SelectSeq(events, LAMBDA e : e.category = c))],
                  dateRange |-> [start |-> events[1].timestamp,
                                 end |-> events[Len(events)].timestamp],
                  activityByTime |->
                      [hourOfDay |-> [hour \in {toString(i) : i \in 0..23} |->
                                         Len(SelectSeq(events, LAMBDA e : toString(hourOf(e.timestamp)) = hour))],
                       dayOfWeek |-> [day \in {days[n] : n \in 1..Len(days)} |->
                                         Len(SelectSeq(events, LAMBDA e : days[(weekdayOf(e.timestamp) % 7) + 1] = day))],
                       byMonth |-> [month \in {months[n] : n \in 1..Len(months)} |->
                                         Len(SelectSeq(events, LAMBDA e : months[monthOf(e.timestamp)] = month))]]]
         IN IF \E n \in 1..Len(events) : "sentiment" \in DOMAIN events[n]
            THEN withField(basic, "sentiment", sentimentStats(events))
            ELSE basic

\* 1969-12-31T23:30Z, 1970-01-01T00:00Z, 1970-01-04T12:00Z (a Sunday)
StatsTimes == {-1800000, 0, 302400000}

\* the sentiment of an enriched event: absent, or a SentimentScore
StatsSentiments ==
    {[label |-> "positive", score |-> 50], [label |-> "negative", score |-> -50]}

\* the enriched events handed to calculateAdvancedStats
StatsEvents ==
    {[platform |-> p, category |-> "post", timestamp |-> [ms |-> t, zone |-> z]] :
        p \in Platforms, t \in StatsTimes, z \in Zones}
    \cup {[platform |-> p, category |-> "post", timestamp |-> [ms |-> t, zone |-> z], sentiment |-> s] :
        p \in Platforms, t \in StatsTimes, z \in Zones, s \in StatsSentiments}

InitStats ==
    /\ statsEvents = <<>>
    /\ stats = [status |-> "pending"]

\* one more event in the list handed to calculateAdvancedStats
StatsReceive(event) ==
    /\ stats.status = "pending"
    /\ Len(statsEvents) < MaxStatsEvents
    /\ statsEvents' = Append(statsEvents, event)
    /\ UNCHANGED stats
    /\ UNCHANGED <<pipelineVars, mergeVars, nlpVars, geoVars, networkVars, enrichVars, advancedVars>>

CalculateAdvancedStats ==
    /\ stats.status = "pending"
    /\ stats' = [status |-> "returned", value |-> calculateAdvancedStats(statsEvents)]
    /\ UNCHANGED statsEvents
    /\ UNCHANGED <<pipelineVars, mergeVars, nlpVars, geoVars, networkVars, enrichVars, advancedVars>>

NextStats ==
    \/ \E event \in StatsEvents : StatsReceive(event)
    \/ CalculateAdvancedStats

\* event.timestamp, undefined on an event that has none
timestampOrUndefined(event) ==
    IF "timestamp" \in DOMAIN event THEN event.timestamp ELSE [isUndefined |-> TRUE]

\* a mutant of getStats: start read from the first element, end from the last
getStatsFirstToLast(events) ==
    [totalEvents |-> Len(events),
     platformCounts |-> [p \in {events[n].platform : n \in 1..Len(events)} |->
                            Len(SelectSeq(events, LAMBDA e : e.platform = p))],
     dateRange |-> [start |-> IF Len(events) > 0 THEN timestampOrUndefined(events[1]) ELSE null,
                    end |-> IF Len(events) > 0 THEN timestampOrUndefined(events[Len(events)]) ELSE null],
     categoryCounts |-> [c \in {events[n].category : n \in 1..Len(events)} |->
                            Len(SelectSeq(events, LAMBDA e : e.category = c))]]

\* getStats of the concurrent class: start is the timestamp of the last
\* element, end that of the first
getStats(events) ==
    [totalEvents |-> Len(events),
     platformCounts |-> [p \in {events[n].platform : n \in 1..Len(events)} |->
                            Len(SelectSeq(events, LAMBDA e : e.platform = p))],
     dateRange |-> [start |-> IF Len(events) > 0 THEN timestampOrUndefined(events[Len(events)]) ELSE null,
                    end |-> IF Len(events) > 0 THEN timestampOrUndefined(events[1]) ELSE null],
     categoryCounts |-> [c \in {events[n].category : n \in 1..Len(events)} |->
                            Len(SelectSeq(events, LAMBDA e : e.category = c))]]

\* the statistics of the list buildTimeline returned: getStats of the
\* concurrent class; Step 4 of buildAdvancedTimeline, which builds on the
\* sequential class and, with no analysis configured, hands the list as it
\* is to calculateAdvancedStats
GetStats ==
    /\ result.status = "fulfilled"
    /\ timelineStats.status = "pending"
    /\ timelineStats' = [status |-> "returned",
                         value |-> IF impl = "concurrent"
                                   THEN getStats(result.events)
                                   ELSE calculateAdvancedStats(result.events)]
    /\ UNCHANGED <<impl, faults, pc, returned, settled, console, calls, completion, allEvents, result>>
    /\ UNCHANGED <<mergeVars, nlpVars, geoVars, networkVars, statsVars, enrichVars, advancedVars>>

(***************************************************************************)
(* The stages of NLPProcessor (src/unnamed/part_011) on a text, and        *)
(* AdvancedTimelineBuilder.buildAdvancedTimeline (src/unnamed/part_014)    *)
(***************************************************************************)
\* toLowerCase of one code unit, on ASCII and Latin-1
lowerCaseUnit(c) ==
    IF c >= 65 /\ c <= 90 THEN c + 32
    ELSE IF c >= 192 /\ c <= 222 /\ c # 215 THEN c + 32
    ELSE c

\* whether a code unit of the lowercased text is in a set or range
hasUnit(str, units) == \E i \in 1..Len(str) : lowerCaseUnit(str[i]) \in units

\* detectLanguage: the first character class found in the text decides
detectLanguage(str) ==
    IF hasUnit(str, 12352..12543) THEN "ja"
    ELSE IF hasUnit(str, 1024..1279) THEN "ru"
    ELSE IF hasUnit(str, 19968..40959) THEN "zh"
    ELSE IF hasUnit(str, 1536..1791) THEN "ar"
    ELSE IF hasUnit(str, {225, 233, 237, 243, 250, 252, 241}) THEN "es"
    ELSE IF hasUnit(str, {224, 232, 233, 234, 235, 239, 238, 244, 249, 231}) THEN "fr"
    ELSE IF hasUnit(str, {228, 246, 252, 223}) THEN "de"
    ELSE "en"

\* the entities pushed for the matches of one pattern
taggedEntities(matches, type) ==
    [n \in 1..Len(matches) |-> [text |-> matches[n], type |-> type, confidence |-> 95]]

\* extractEntities on a text without capital letter, ':' and '.', where the
\* person, organization, url and email patterns match nothing: the
\* hashtags, then the mentions, of confidence at least minConfidence (0.6)
extractEntities(str) ==
    SelectSeq(taggedEntities(matchAllTagged(str, 1, 35), <<104, 97, 115, 104, 116, 97, 103>>)
              \o taggedEntities(matchAllTagged(str, 1, 64), <<109, 101, 110, 116, 105, 111, 110>>),
              LAMBDA entity : entity.confidence >= 60)

\* the stopWords list of isStopWord
stopWords ==
    {<<116, 104, 101>>, <<97, 110, 100>>,   \* the and
     <<116, 104, 97, 116>>, <<104, 97, 118, 101>>,   \* that have
     <<102, 111, 114>>, <<110, 111, 116>>,   \* for not
     <<119, 105, 116, 104>>, <<121, 111, 117>>,   \* with you
     <<116, 104, 105, 115>>, <<98, 117, 116>>,   \* this but
     <<104, 105, 115>>, <<102, 114, 111, 109>>,   \* his from
     <<116, 104, 101, 121>>, <<115, 104, 101>>,   \* they she
     <<119, 105, 108, 108>>, <<119, 111, 117, 108, 100>>,   \* will would
     <<116, 104, 101, 114, 101>>, <<116, 104, 101, 105, 114>>,   \* there their
     <<119, 104, 97, 116>>, <<97, 98, 111, 117, 116>>,   \* what about
     <<119, 104, 105, 99, 104>>, <<119, 104, 101, 110>>,   \* which when
     <<109, 97, 107, 101>>, <<108, 105, 107, 101>>,   \* make like
     <<116, 105, 109, 101>>, <<106, 117, 115, 116>>,   \* time just
     <<107, 110, 111, 119>>, <<116, 97, 107, 101>>,   \* know take
     <<105, 110, 116, 111>>, <<121, 101, 97, 114>>,   \* into year
     <<121, 111, 117, 114>>, <<115, 111, 109, 101>>,   \* your some
     <<99, 111, 117, 108, 100>>, <<116, 104, 101, 109>>,   \* could them
     <<115, 101, 101>>, <<111, 116, 104, 101, 114>>,   \* see other
     <<116, 104, 97, 110>>, <<116, 104, 101, 110>>,   \* than then
     <<110, 111, 119>>, <<108, 111, 111, 107>>,   \* now look
     <<111, 110, 108, 121>>, <<99, 111, 109, 101>>,   \* only come
     <<111, 118, 101, 114>>, <<116, 104, 105, 110, 107>>,   \* over think
     <<97, 108, 115, 111>>, <<98, 97, 99, 107>>,   \* also back
     <<97, 102, 116, 101, 114>>, <<117, 115, 101>>,   \* after use
     <<116, 119, 111>>, <<104, 111, 119>>,   \* two how
     <<111, 117, 114>>, <<119, 111, 114, 107>>,   \* our work
     <<102, 105, 114, 115, 116>>, <<119, 101, 108, 108>>,   \* first well
     <<119, 97, 121>>   \* way
    }

\* wordCounts after the tokens from index i on: a Map in insertion order
RECURSIVE countTokens(_, _, _)
countTokens(tokens, i, wordCounts) ==
    IF i > Len(tokens) THEN wordCounts
    ELSE countTokens(tokens, i + 1,
             mapSet(wordCounts, tokens[i],
                    IF mapHas(wordCounts, tokens[i]) THEN mapGet(wordCounts, tokens[i]) + 1 ELSE 1))

\* entries.sort((a, b) => b[1] - a[1]): stable, most frequent first
RECURSIVE sortByCount(_)
sortByCount(entries) ==
    IF entries = <<>> THEN <<>>
    ELSE LET top == CHOOSE n \in 1..Len(entries) :
                        /\ \A k \in 1..Len(entries) : entries[k].value <= entries[n].value
                        /\ \A k \in 1..(n - 1) : entries[k].value < entries[n].value
         IN <<entries[top]>>
            \o sortByCount([k \in 1..(Len(entries) - 1) |->
                               IF k < top THEN entries[k] ELSE entries[k + 1]])

\* modelTopics: the (at most numTopics = 5) most frequent tokens longer than
\* three characters that are no stop words
modelTopics(str) ==
    LET words == splitWhitespace(removePunctuation(toLowerCase(str)), 1, <<>>)
        tokens == SelectSeq(words, LAMBDA word : Len(word) > 3 /\ word \notin stopWords)
        sortedWords == sortByCount(countTokens(tokens, 1, <<>>))
    IN [n \in 1..Min(5, Len(sortedWords)) |-> sortedWords[n].key]

(***************************************************************************)
(* Enrichment stages run over a batch: NLPProcessor.processEvents          *)
(* (src/unnamed/part_011), NLPProcessor.process                            *)
(* (src/src/processors/nlp-processor.ts) and                               *)
(* GeoAnalyzer.enhanceEventsWithGeoData (src/cli/advanced-cli.ts).         *)
(* What an NLP method computes is not modelled here: the annotation it     *)
(* sets holds the method's name.  An event carries, as an input, the       *)
(* method whose call throws on it ("none": no call throws).                *)
(***************************************************************************)
\* the methods processEvents awaits for an event, in the order of the loop body
processEventsStages ==
    <<[method |-> "detectLanguage", field |-> "language"],
      [method |-> "extractEntities", field |-> "entities"],
      [method |-> "analyzeSentiment", field |-> "sentiment"],
      [method |-> "modelTopics", field |-> "topics"]>>

\* the methods process calls for an event while it builds metadata.nlp
processStages ==
    <<[method |-> "extractEntities", field |-> "entities"],
      [method |-> "analyzeSentiment", field |-> "sentiment"],
      [method |-> "extractTopics", field |-> "topics"]>>

stageThrows(stages, event) == \E n \in 1..Len(stages) : stages[n].method = event.throws

\* !event.content || event.content.trim().length === 0
emptyContent(event) == event.content = <<>> \/ Len(trim(event.content)) = 0

\* the annotations of stages n.. set on a copy of the event
RECURSIVE annotate(_, _, _)
annotate(event, stages, n) ==
    IF n > Len(stages) THEN event
    ELSE annotate(withField(event, stages[n].field, stages[n].method), stages, n + 1)

\* the loop of processEvents has no try/catch: a rejected await leaves the
\* function, and the events pushed so far with it
processEvents(events) ==
    IF \E i \in 1..Len(events) :
           ~emptyContent(events[i]) /\ stageThrows(processEventsStages, events[i])
    THEN [status |-> "rejected", events |-> <<>>]
    ELSE [status |-> "fulfilled",
          events |-> [i \in 1..Len(events) |->
                         IF emptyContent(events[i]) THEN events[i]
                         ELSE annotate(events[i], processEventsStages, 1)]]

\* { ...event.metadata, nlp: { entities, sentiment, topics } }
metadataWithNlp(event) ==
    withField(IF "metadata" \in DOMAIN event THEN event.metadata ELSE <<>>,
              "nlp", annotate(<<>>, processStages, 1))

\* process: one try/catch around the whole map; the catch returns the events
\* it was given
process(events) ==
    IF \E i \in 1..Len(events) : stageThrows(processStages, events[i])
    THEN [status |-> "fulfilled", events |-> events]
    ELSE [status |-> "fulfilled",
          events |-> [i \in 1..Len(events) |->
                         withField(events[i], "metadata", metadataWithNlp(events[i]))]]

\* event.metadata.lat in extractLocationFromMetadata is a TypeError when the
\* event has no metadata; it is not reached when the event has a location
geoThrows(event) == "location" \notin DOMAIN event /\ "metadata" \notin DOMAIN event

\* enhanceEventsWithGeoData called on events that may lack their metadata
enhanceBatch(events) ==
    IF \E i \in 1..Len(events) : geoThrows(events[i])
    THEN [status |-> "rejected", events |-> <<>>]
    ELSE [status |-> "fulfilled", events |-> enhanceEventsWithGeoData(events)]

\* the methods of the NLP stages, and none
ThrowingMethods ==
    {"none", "detectLanguage", "extractEntities", "analyzeSentiment", "modelTopics", "extractTopics"}

\* the events of a batch handed to an enrichment stage
EnrichEvents ==
    {[platform |-> "github", metadata |-> [url |-> "u"], content |-> c, entities |-> <<>>,
      throws |-> t] : c \in {<<>>, ContentParis, ContentAtlantis}, t \in ThrowingMethods}
    \cup {[platform |-> "github", content |-> c, entities |-> <<>>, throws |-> t] :
             c \in {<<>>, ContentParis, ContentAtlantis}, t \in ThrowingMethods}

InitEnrich ==
    /\ batch = <<>>
    /\ outcome = [by |-> "none", status |-> "pending", events |-> <<>>]

\* one more event in the batch
EnrichReceive(event) ==
    /\ outcome.status = "pending"
    /\ Len(batch) < MaxBatch
    /\ batch' = Append(batch, event)
    /\ UNCHANGED outcome
    /\ UNCHANGED <<pipelineVars, mergeVars, nlpVars, geoVars, networkVars, statsVars, advancedVars>>

ProcessEvents ==
    /\ outcome.status = "pending"
    /\ outcome' = [by |-> "processEvents"] @@ processEvents(batch)
    /\ UNCHANGED batch
    /\ UNCHANGED <<pipelineVars, mergeVars, nlpVars, geoVars, networkVars, statsVars, advancedVars>>

Process ==
    /\ outcome.status = "pending"
    /\ outcome' = [by |-> "process"] @@ process(batch)
    /\ UNCHANGED batch
    /\ UNCHANGED <<pipelineVars, mergeVars, nlpVars, geoVars, networkVars, statsVars, advancedVars>>

EnhanceBatch ==
    /\ outcome.status = "pending"
    /\ outcome' = [by |-> "enhanceEventsWithGeoData"] @@ enhanceBatch(batch)
    /\ UNCHANGED batch
    /\ UNCHANGED <<pipelineVars, mergeVars, nlpVars, geoVars, networkVars, statsVars, advancedVars>>

NextEnrich ==
    \/ \E event \in EnrichEvents : EnrichReceive(event)
    \/ ProcessEvents
    \/ Process
    \/ EnhanceBatch

(***************************************************************************)
(* AdvancedTimelineBuilder.buildAdvancedTimeline (src/unnamed/part_014),   *)
(* from the events buildTimeline returned to the network graph             *)
(***************************************************************************)
\* the key of a stage's options in the NLPConfig
stageOption(method) ==
    CASE method = "detectLanguage" -> "languageDetection"
      [] method = "extractEntities" -> "entityExtraction"
      [] method = "analyzeSentiment" -> "sentimentAnalysis"
      [] method = "modelTopics" -> "topicModeling"

\* what a stage method returns on a content
stageValue(method, content) ==
    CASE method = "detectLanguage" -> detectLanguage(content)
      [] method = "extractEntities" -> extractEntities(content)
      [] method = "analyzeSentiment" -> analyzeSentiment(content)
      [] method = "modelTopics" -> modelTopics(content)

\* a mutant of enabledStages: sentiment configAnalysis comes first
enabledStagesSentimentFirst(options) ==
    SelectSeq(<<processEventsStages[3], processEventsStages[1],
                processEventsStages[2], processEventsStages[4]>>,
              LAMBDA s : options[stageOption(s.method)])

\* the stages the loop body of processEvents applies under the options, in its order
enabledStages(options) ==
    SelectSeq(processEventsStages, LAMBDA s : options[stageOption(s.method)])

\* the annotations of stages n.. set on the copy of an event
RECURSIVE enrich(_, _, _)
enrich(event, stages, n) ==
    IF n > Len(stages) THEN event
    ELSE enrich(withField(event, stages[n].field, stageValue(stages[n].method, event.content)),
                stages, n + 1)

\* processEvents of an NLPProcessor built with the options
processEventsWith(events, options) ==
    [i \in 1..Len(events) |->
        IF emptyContent(events[i]) THEN events[i]
        ELSE enrich(events[i], enabledStages(options), 1)]

\* the stage calls processEvents makes from event i on
RECURSIVE stageCalls(_, _, _)
stageCalls(events, options, i) ==
    IF i > Len(events) THEN <<>>
    ELSE (IF emptyContent(events[i]) THEN <<>>
          ELSE [n \in 1..Len(enabledStages(options)) |->
                   [method |-> enabledStages(options)[n].method, event |-> i]])
         \o stageCalls(events, options, i + 1)

\* a missing entities list counts as an empty one in the NetworkAnalyzer:
\* event.entities && event.entities.length > 0
entitiesOrEmpty(event) ==
    IF "entities" \in DOMAIN event THEN event ELSE withField(event, "entities", <<>>)

\* "thanks @bob #tag"
ContentThanks == <<116, 104, 97, 110, 107, 115, 32, 64, 98, 111, 98, 32, 35, 116, 97, 103>>
\* "release notes release"
ContentRelease == <<114, 101, 108, 101, 97, 115, 101, 32, 110, 111, 116, 101, 115, 32, 114, 101, 108, 101, 97, 115, 101>>

\* the events buildTimeline can have returned
TimelineEvents ==
    {[id |-> id, username |-> alice, platform |-> "twitter", category |-> "post",
      title |-> ContentHi, url |-> "u", content |-> c,
      timestamp |-> [ms |-> 0, zone |-> config.timezone],
      metadata |-> md, relations |-> <<>>] :
        id \in {<<97>>, <<98>>}, c \in {ContentThanks, ContentRelease},
        md \in {[url |-> "u"], [lat |-> 525200, lng |-> 134050]}}
    \cup {[id |-> id, username |-> alice, platform |-> "twitter", category |-> "post",
           title |-> ContentHi, url |-> "u", content |-> ContentThanks,
           timestamp |-> [ms |-> 0, zone |-> config.timezone],
           metadata |-> [lat |-> 525200, lng |-> 134050], relations |-> <<>>,
           location |-> PresetLocation] : id \in {<<97>>, <<98>>}}

InitAdvanced ==
    /\ configAnalysis \in [{"entities", "sentiment", "topics", "geotagging", "network"} -> BOOLEAN]
    /\ nlpConfig \in [{"languageDetection", "entityExtraction", "sentimentAnalysis",
                       "topicModeling"} -> BOOLEAN]
    /\ step = "collect"
    /\ collected = <<>>
    /\ enrichedEvents = <<>>
    /\ applied = <<>>
    /\ networkGraph = [status |-> "undefined"]

\* Step 1: the events of buildTimeline (an empty list ends the run)
StepCollect(events) ==
    /\ step = "collect"
    /\ collected' = events
    /\ enrichedEvents' = events
    /\ step' = IF Len(events) = 0 THEN "done" ELSE "nlp"
    /\ UNCHANGED <<configAnalysis, nlpConfig, applied, networkGraph>>
    /\ UNCHANGED <<pipelineVars, mergeVars, nlpVars, geoVars, networkVars, statsVars, enrichVars>>

\* Step 2: NLP enrichment
StepNLP ==
    /\ step = "nlp"
    /\ IF configAnalysis.entities \/ configAnalysis.sentiment \/ configAnalysis.topics
       THEN /\ enrichedEvents' = processEventsWith(collected, nlpConfig)
            /\ applied' = applied \o stageCalls(collected, nlpConfig, 1)
       ELSE UNCHANGED <<enrichedEvents, applied>>
    /\ step' = "geo"
    /\ UNCHANGED <<configAnalysis, nlpConfig, collected, networkGraph>>
    /\ UNCHANGED <<pipelineVars, mergeVars, nlpVars, geoVars, networkVars, statsVars, enrichVars>>

\* Step 3: geo-enrichment
StepGeo ==
    /\ step = "geo"
    /\ IF configAnalysis.geotagging
       THEN /\ enrichedEvents' = enhanceEventsWithGeoData(enrichedEvents)
            /\ applied' = applied \o [i \in 1..Len(enrichedEvents) |->
                                         [method |-> "enhanceEventsWithGeoData", event |-> i]]
       ELSE UNCHANGED <<enrichedEvents, applied>>
    /\ step' = "network"
    /\ UNCHANGED <<configAnalysis, nlpConfig, collected, networkGraph>>
    /\ UNCHANGED <<pipelineVars, mergeVars, nlpVars, geoVars, networkVars, statsVars, enrichVars>>

\* Steps 4 and 5: the statistics read the events and change none; then the
\* network configAnalysis
StepNetwork ==
    /\ step = "network"
    /\ IF configAnalysis.network
       THEN /\ networkGraph' =
                   [status |-> "built",
                    value |-> buildNetworkGraph([i \in 1..Len(enrichedEvents) |->
                                                    entitiesOrEmpty(enrichedEvents[i])])]
            /\ applied' = applied \o [i \in 1..Len(enrichedEvents) |->
                                         [method |-> "buildNetworkGraph", event |-> i]]
       ELSE UNCHANGED <<networkGraph, applied>>
    /\ step' = "done"
    /\ UNCHANGED <<configAnalysis, nlpConfig, collected, enrichedEvents>>
    /\ UNCHANGED <<pipelineVars, mergeVars, nlpVars, geoVars, networkVars, statsVars, enrichVars>>

NextAdvanced ==
    \/ \E events \in UNION {[1..k -> TimelineEvents] : k \in 0..MaxTimeline} : StepCollect(events)
    \/ StepNLP
    \/ StepGeo
    \/ StepNetwork

(***************************************************************************)
(* Specifications                                                          *)
(***************************************************************************)
InitAny ==
    InitPipeline /\ InitMerge /\ InitSentiment /\ InitGeo /\ InitNetwork /\ InitStats /\ InitEnrich
    /\ InitAdvanced

\* the options of an AdvancedTimelineBuilder built without any: no analysis
\* asked for, every NLP stage enabled
InitDefaultOptions ==
    /\ configAnalysis = [k \in {"entities", "sentiment", "topics", "geotagging", "network"} |-> FALSE]
    /\ nlpConfig = [k \in {"languageDetection", "entityExtraction", "sentimentAnalysis",
                           "topicModeling"} |-> TRUE]

\* the adapters keep their contract: every ingest settles, with TimelineEvent[]
Init == InitAny /\ ~faults /\ InitDefaultOptions

\* the adapters may return events without timestamp, or never settle
InitFaults == InitAny /\ faults /\ InitDefaultOptions

\* a builder with any options
InitAnyOptions == InitAny /\ ~faults /\ impl = "sequential"

Next == NextPipeline \/ GetStats

\* buildTimeline of both TimelineProcessor classes
Spec == Init /\ [][Next]_vars

\* the sequential class, whose buildTimeline deduplicates and merges
InitSequential == Init /\ impl = "sequential"

\* buildTimeline of both classes over adapters that may break their contract
SpecFaults == InitFaults /\ [][Next]_vars

\* deduplicateEvents and sortEventsByTimestamp on bounded lists
SpecMerge == InitSequential /\ [][NextMerge]_vars

\* analyzeSentiment on bounded texts
SpecSentiment == InitSequential /\ [][NextSentiment]_vars

\* enhanceEventsWithGeoData on bounded lists
SpecGeo == InitSequential /\ [][NextGeo]_vars

\* addOrUpdateEdge on bounded sequences of calls
SpecEdges == InitSequential /\ [][NextEdges]_vars

\* buildNetworkGraph on bounded lists
SpecNetwork == InitSequential /\ [][NextNetwork]_vars

\* calculateAdvancedStats on bounded lists
SpecStats == InitSequential /\ [][NextStats]_vars

\* the enrichment stages on bounded batches
SpecEnrich == InitSequential /\ [][NextEnrich]_vars

\* deduplicateEvents on bounded lists of short contents
SpecHashed == InitSequential /\ [][NextHashed]_vars

\* buildAdvancedTimeline under every configuration of its stages
SpecAdvanced == InitAnyOptions /\ [][NextAdvanced]_vars

(***************************************************************************)
(* Properties                                                              *)
(***************************************************************************)
\* what a caller can compare of an event whatever zone it is expressed in
instantView(events) ==
    [i \in 1..Len(events) |->
        <<events[i].id, events[i].platform, events[i].content, events[i].timestamp.ms>>]

\* the events of platform p in a list, in the list's order
eventsOfPlatform(events, p) == SelectSeq(events, LAMBDA e : e.platform = p)

\* C1: when buildTimeline has settled, whatever subset of the adapters
\* failed, it has returned (not thrown), every adapter has been run to its
\* end, the collected list holds the events of every successful adapter,
\* all of them and in the adapter's order, and no event of a failed one.
C1_PartialFailureKeepsOthers ==
    result.status # "pending" =>
        /\ result.status = "fulfilled"
        /\ \A p \in Platforms : pc[p] = "settled"
        /\ \A p \in Platforms :
              instantView(eventsOfPlatform(allEvents, p)) =
                 IF returned[p].status = "fulfilled"
                 THEN instantView(returned[p].events) ELSE <<>>

C1_Witness ==
    /\ result.status = "fulfilled"
    /\ \E p, q \in Platforms :
          /\ settled[p].status = "rejected"
          /\ returned[q].status = "fulfilled"
          /\ Len(returned[q].events) > 0
          /\ Len(eventsOfPlatform(allEvents, q)) = Len(returned[q].events)

\* the warnings carried by the value buildTimeline resolves to
warningsOf(value) == IF "warnings" \in DOMAIN value THEN value.warnings ELSE {}

\* C2: the top-level call never throws for partial data problems and
\* returns, with its best-effort events, a list of warnings naming every
\* adapter that failed.
C2_ReturnsWarnings ==
    result.status # "pending" =>
        /\ result.status = "fulfilled"
        /\ \A p \in Platforms : settled[p].status = "rejected" => p \in warningsOf(result)

\* same platform, same lowercased and trimmed content, same minute
sameFingerprint(a, b) ==
    /\ a.platform = b.platform
    /\ trim(toLowerCase(a.content)) = trim(toLowerCase(b.content))
    /\ a.timestamp.ms \div 60000 = b.timestamp.ms \div 60000

\* the positions of a list holding an event with the fingerprint of e
positionsLike(events, e) == {n \in 1..Len(events) : sameFingerprint(events[n], e)}

C4_MinuteGranularity ==
    stage # "collect" =>
        \A i, j \in 1..Len(input) :
            (i < j /\ input[i].platform = input[j].platform
                   /\ input[i].content = input[j].content) =>
                IF input[i].timestamp.ms \div 60000 = input[j].timestamp.ms \div 60000
                THEN /\ Cardinality(positionsLike(deduplicated, input[i])) = 1
                     /\ Len(input) = 2 => deduplicated = <<input[1]>>
                ELSE /\ Cardinality(positionsLike(deduplicated, input[i])) = 1
                     /\ Cardinality(positionsLike(deduplicated, input[j])) = 1
                     /\ Len(input) = 2 => deduplicated = input

C4_Witness ==
    /\ stage = "deduplicated"
    /\ Len(input) = 2
    /\ input[1].platform = input[2].platform
    /\ input[1].content = input[2].content
    /\ input[1].timestamp.ms \div 60000 # input[2].timestamp.ms \div 60000
    /\ deduplicated = input

\* C5: deduplicateEvents is idempotent: applied to its own output it
\* returns that output, same events in the same order.
C5_DedupIdempotent ==
    stage = "rededuplicated" => rededuplicated = deduplicated

C5_Witness ==
    /\ stage = "rededuplicated"
    /\ Len(deduplicated) < Len(input)
    /\ rededuplicated = deduplicated

Lexicographic == <<"a", "b", "github", "twitter">>

lexRank(str) == CHOOSE n \in 1..Len(Lexicographic) : Lexicographic[n] = str

\* (platform, id) of a before or equal to (platform, id) of b
tieBreakOrdered(a, b) ==
    \/ lexRank(a.platform) < lexRank(b.platform)
    \/ a.platform = b.platform /\ lexRank(a.id) <= lexRank(b.id)

distinctTimestamps(events) ==
    \A i, j \in 1..Len(events) :
        i # j => events[i].timestamp.ms # events[j].timestamp.ms

C9_NormalizeDedupMerge ==
    result.status = "fulfilled" =>
        /\ \A i, j \in 1..Len(result.events) :
              i < j =>
                  /\ ~sameFingerprint(result.events[i], result.events[j])
                  /\ result.events[i].timestamp.ms <= result.events[j].timestamp.ms
        /\ \A i, j \in 1..Len(allEvents) :
              (i < j /\ sameFingerprint(allEvents[i], allEvents[j])) =>
                  Len(result.events) < Len(allEvents)

\* C10: the score analyzeSentiment returns lies in [-1, 1], and a text
\* none of whose tokens is in a sentiment list scores 0 and is neutral.
C10_ScoreBoundedNeutralAtZero ==
    sentiment.label # "none" =>
        /\ sentiment.score.den > 0
        /\ sentiment.score.num <= sentiment.score.den
        /\ sentiment.score.num >= -sentiment.score.den
        /\ (\A n \in 1..Len(matchWords(toLowerCase(text), 1, <<>>)) :
               matchWords(toLowerCase(text), 1, <<>>)[n] \notin positiveWords \cup negativeWords)
           => (sentiment.score.num = 0 /\ sentiment.label = "neutral")

C10_Witness ==
    /\ sentiment.label = "neutral"
    /\ sentiment.score.num = 0
    /\ Len(matchWords(toLowerCase(text), 1, <<>>)) >= 2
    /\ \A n \in 1..Len(matchWords(toLowerCase(text), 1, <<>>)) :
          matchWords(toLowerCase(text), 1, <<>>)[n] \notin positiveWords \cup negativeWords

\* the tokens of the analysed text
textWords == matchWords(toLowerCase(text), 1, <<>>)

\* C11: a text with at least one positive-list token and no negative-list
\* token scores above 0.1 and is labelled positive; in general the label is
\* positive iff the score is above 0.1, negative iff it is below -0.1, and
\* neutral otherwise.
C11_LabelThresholds ==
    sentiment.label # "none" =>
        /\ ((\E n \in 1..Len(textWords) : textWords[n] \in positiveWords)
             /\ (\A n \in 1..Len(textWords) : textWords[n] \notin negativeWords))
           => (10 * sentiment.score.num > sentiment.score.den /\ sentiment.label = "positive")
        /\ sentiment.label = "positive" <=> 10 * sentiment.score.num > sentiment.score.den
        /\ sentiment.label = "negative" <=> 10 * sentiment.score.num < -sentiment.score.den
        /\ sentiment.label = "neutral" <=>
              /\ 10 * sentiment.score.num <= sentiment.score.den
              /\ 10 * sentiment.score.num >= -sentiment.score.den

C11_Witness ==
    /\ text = TextLoveFeature
    /\ Len(textWords) = 7
    /\ sentiment.label = "positive"
    /\ sentiment.score = [num |-> 2, den |-> 7]

\* str contains, in any letter case, a name of the gazetteer
containsGazetteerName(str) ==
    \E n \in 1..Len(gazetteerEntries) :
        LET name == gazetteerEntries[n].name
        IN \E i \in 1..(Len(str) - Len(name) + 1) :
               SubSeq(toLowerCase(str), i, i + Len(name) - 1) = name

\* the event carries coordinates of its own: in its metadata, in the
\* structured geo metadata, or in the metadata of one of its entities
hasExplicitCoordinates(event) ==
    \/ "lat" \in DOMAIN event.metadata
    \/ "lng" \in DOMAIN event.metadata
    \/ "geo" \in DOMAIN event.metadata /\ "coordinates" \in DOMAIN event.metadata.geo
    \/ \E n \in 1..Len(event.entities) : "metadata" \in DOMAIN event.entities[n]

\* a name of the gazetteer occurs in the metadata, the entities or the content
mentionsGazetteerName(event) ==
    \/ "locationName" \in DOMAIN event.metadata /\ containsGazetteerName(event.metadata.locationName)
    \/ "subreddit" \in DOMAIN event.metadata /\ containsGazetteerName(event.metadata.subreddit)
    \/ /\ "geo" \in DOMAIN event.metadata
       /\ "place" \in DOMAIN event.metadata.geo
       /\ containsGazetteerName(event.metadata.geo.place.full_name)
    \/ \E n \in 1..Len(event.entities) : containsGazetteerName(event.entities[n].text)
    \/ containsGazetteerName(event.content)

\* C12: an event without a pre-set location, without explicit coordinates and
\* whose metadata, entities and content contain no gazetteer name leaves
\* enhanceEventsWithGeoData with its location unset.
C12_NeverFabricates ==
    enhanced.status = "fulfilled" =>
        \A n \in 1..Len(geoEvents) :
            (/\ "location" \notin DOMAIN geoEvents[n]
             /\ ~hasExplicitCoordinates(geoEvents[n])
             /\ ~mentionsGazetteerName(geoEvents[n]))
            => "location" \notin DOMAIN enhanced.events[n]

\* two calls or records are about one unordered endpoint pair and one type
sameEdge(a, b) == a.type = b.type /\ {a.source, a.target} = {b.source, b.target}

\* the records of the edge collection that represent a discovered edge
recordsOf(call) == {n \in 1..Len(edgeMap) : sameEdge(edgeMap[n].value, call)}

\* C13: after any sequence of addOrUpdateEdge calls every discovered
\* (unordered endpoint pair, type) has exactly one record, whose weight counts
\* its discoveries, and every record stands for a discovered edge.
C13_OneRecordPerPair ==
    /\ \A k \in 1..Len(discovered) :
           /\ Cardinality(recordsOf(discovered[k])) = 1
           /\ \A n \in recordsOf(discovered[k]) :
                  edgeMap[n].value.weight =
                      Cardinality({l \in 1..Len(discovered) : sameEdge(discovered[l], discovered[k])})
    /\ \A n \in 1..Len(edgeMap) :
           \E k \in 1..Len(discovered) : sameEdge(edgeMap[n].value, discovered[k])

\* an edge discovered as (A, B) and later as (B, A): one record of weight 2
C13_Witness ==
    /\ Len(discovered) = 2
    /\ discovered[1].source # discovered[1].target
    /\ discovered[2] = [source |-> discovered[1].target, target |-> discovered[1].source,
                        type |-> discovered[1].type]
    /\ Len(edgeMap) = 1
    /\ edgeMap[1].value.weight = 2

\* the ids of the entities of an event with confidence >= 0.6
qualifyingEntities(event) ==
    {entityIdOf(event.entities[n]) :
        n \in {k \in 1..Len(event.entities) : event.entities[k].confidence >= 60}}

\* the input events in which both entities occur
eventsWithBoth(x, y) ==
    {n \in 1..Len(networkEvents) : {x, y} \subseteq qualifyingEntities(networkEvents[n])}

\* the cooccurs_with edges of the built graph between x and y
cooccurrenceRecords(x, y) ==
    {k \in 1..Len(graph.value.edges) :
        /\ graph.value.edges[k].type = cooccurs_with
        /\ {graph.value.edges[k].source, graph.value.edges[k].target} = {x, y}}

\* C14: in the graph built by buildNetworkGraph every pair of distinct
\* qualifying entities that occur together has one cooccurs_with edge, whose
\* weight is the number of input events in which both occur.
C14_CooccurrenceWeight ==
    graph.status = "fulfilled" =>
        \A n, m \in 1..Len(networkEvents) :
            \A x \in qualifyingEntities(networkEvents[n]), y \in qualifyingEntities(networkEvents[m]) :
                x # y =>
                    IF eventsWithBoth(x, y) = {} THEN cooccurrenceRecords(x, y) = {}
                    ELSE /\ Cardinality(cooccurrenceRecords(x, y)) = 1
                         /\ \A k \in cooccurrenceRecords(x, y) :
                                graph.value.edges[k].weight = Cardinality(eventsWithBoth(x, y))

\* event is raw with its timestamp re-expressed in the target zone: the same
\* instant, every other field as the adapter returned it
normalizedFrom(event, raw) ==
    /\ event.timestamp.zone = config.timezone
    /\ toMillis(event.timestamp) = toMillis(raw.timestamp)
    /\ \A field \in (DOMAIN raw \cup DOMAIN event) \ {"timestamp"} :
           field \in DOMAIN raw /\ field \in DOMAIN event /\ event[field] = raw[field]

\* the events the adapters returned in this run
reportedEvents ==
    UNION {{returned[p].events[i] : i \in 1..Len(returned[p].events)} : p \in Platforms}

\* C15: every event leaving processEvents, and every event buildTimeline
\* returns, carries its timestamp in the configured zone at the instant the
\* adapter reported, and normalization changes no other field (the NLP step
\* of the concurrent class writes metadata afterwards).
C15_NormalizationFrame ==
    /\ \A p \in Platforms :
           (impl = "concurrent" /\ settled[p].status = "fulfilled") =>
               /\ Len(settled[p].value) = Len(returned[p].events)
               /\ \A i \in 1..Len(settled[p].value) :
                      normalizedFrom(settled[p].value[i], returned[p].events[i])
    /\ result.status = "fulfilled" =>
           \A n \in 1..Len(result.events) :
               \E raw \in reportedEvents :
                   IF impl = "sequential"
                   THEN normalizedFrom(result.events[n], raw)
                   ELSE normalizedFrom([result.events[n] EXCEPT !.metadata = raw.metadata], raw)

\* an event reported in another zone than the target zone is returned
C15_Witness ==
    /\ result.status = "fulfilled"
    /\ \E n \in 1..Len(result.events) :
           \E raw \in reportedEvents :
               /\ raw.timestamp.zone # config.timezone
               /\ raw.id = result.events[n].id
               /\ raw.platform = result.events[n].platform
               /\ raw.content = result.events[n].content
               /\ toMillis(raw.timestamp) = toMillis(result.events[n].timestamp)
               /\ result.events[n].timestamp.zone = config.timezone

\* C16: the statistics always hold every hour-of-day, day-of-week and
\* month-of-year bucket, also for the empty list.
C16_BucketsInitialised ==
    stats.status = "returned" =>
        /\ "activityByTime" \in DOMAIN stats.value
        /\ DOMAIN stats.value.activityByTime.hourOfDay = {toString(i) : i \in 0..23}
        /\ DOMAIN stats.value.activityByTime.dayOfWeek = {days[n] : n \in 1..7}
        /\ DOMAIN stats.value.activityByTime.byMonth = {months[n] : n \in 1..12}
        /\ Cardinality({toString(i) : i \in 0..23}) = 24

\* C17: once the turn of an adapter whose ingester was built is over, the
\* calls made on it are testConnection and then ingest, once each.
C17_TestThenIngestOnce ==
    \A p \in Platforms :
        /\ \E n \in 0..3 : calls[p] = SubSeq(<<"new", "testConnection", "ingest">>, 1, n)
        /\ (pc[p] = "settled" /\ calls[p] # <<>>) =>
               calls[p] = <<"new", "testConnection", "ingest">>

\* C18: when one adapter's ingest never settles and every other adapter is
\* done, buildTimeline has returned or can still take a step towards
\* returning; it returns no event of the hung adapter and every event of the
\* others.
C18_HungAdapterReturns ==
    (\E p \in Platforms : pc[p] = "hung" /\ \A q \in Platforms \ {p} : pc[q] = "settled") =>
        \/ /\ result.status = "fulfilled"
           /\ \A p \in Platforms :
                  instantView(eventsOfPlatform(result.events, p)) =
                      IF pc[p] = "settled" /\ returned[p].status = "fulfilled"
                      THEN instantView(returned[p].events) ELSE <<>>
        \/ result.status = "pending" /\ ENABLED Next

\* the deduplication key of an event once its timestamp is in the target zone
normalizedKey(event) == dedupeKey(normalizeTimestamps(<<event>>)[1])

\* C19: once buildTimeline is over after an adapter returned a batch with a
\* malformed event, the call has fulfilled, and every well-formed event
\* any adapter returned is in the result, itself or a duplicate of it, and no
\* malformed one is.
C19_MalformedDroppedSingly ==
    (/\ result.status # "pending"
     /\ \E p \in Platforms :
            returned[p].status = "fulfilled" /\ normalizeThrows(returned[p].events)) =>
        /\ result.status = "fulfilled"
        /\ \A i \in 1..Len(result.events) : wellFormed(result.events[i])
        /\ \A p \in Platforms :
               returned[p].status = "fulfilled" =>
                   \A i \in 1..Len(returned[p].events) :
                       wellFormed(returned[p].events[i]) =>
                           \E j \in 1..Len(result.events) :
                               normalizedKey(result.events[j]) = normalizedKey(returned[p].events[i])

\* the annotations the stages of a list set on an event that none of them
\* threw on but (at most) event.throws: every one but that one
annotatedButThrown(stages, original, annotated) ==
    \A n \in 1..Len(stages) :
        (stages[n].field \in DOMAIN annotated /\ annotated[stages[n].field] = stages[n].method)
            <=> stages[n].method # original.throws

\* C20: when a stage has thrown on an event of the batch, the stage's call
\* still fulfils with every event of the batch in order; the event is
\* returned without that stage's annotation and with the later stages'
\* annotations, and every other event is annotated by every stage.
C20_ThrowingStageSparesBatch ==
    /\ (/\ outcome.by = "processEvents"
        /\ \E i \in 1..Len(batch) :
               ~emptyContent(batch[i]) /\ stageThrows(processEventsStages, batch[i])) =>
           /\ outcome.status = "fulfilled"
           /\ Len(outcome.events) = Len(batch)
           /\ \A i \in 1..Len(batch) :
                  ~emptyContent(batch[i]) =>
                      annotatedButThrown(processEventsStages, batch[i], outcome.events[i])
    /\ (/\ outcome.by = "process"
        /\ \E i \in 1..Len(batch) : stageThrows(processStages, batch[i])) =>
           /\ outcome.status = "fulfilled"
           /\ Len(outcome.events) = Len(batch)
           /\ \A i \in 1..Len(batch) :
                  /\ "metadata" \in DOMAIN outcome.events[i]
                  /\ "nlp" \in DOMAIN outcome.events[i].metadata
                  /\ annotatedButThrown(processStages, batch[i], outcome.events[i].metadata.nlp)
    /\ (/\ outcome.by = "enhanceEventsWithGeoData"
        /\ \E i \in 1..Len(batch) : geoThrows(batch[i])) =>
           /\ outcome.status = "fulfilled"
           /\ Len(outcome.events) = Len(batch)
           /\ \A i \in 1..Len(batch) :
                  outcome.events[i] = IF geoThrows(batch[i]) THEN batch[i]
                                      ELSE enhanceEvent(batch[i])

\* the place of a stage method in the fixed order
stageRank ==
    [detectLanguage |-> 1, extractEntities |-> 2, analyzeSentiment |-> 3, modelTopics |-> 4,
     enhanceEventsWithGeoData |-> 5, buildNetworkGraph |-> 6]

\* the ids of the nodes of a graph
nodeIds(g) == {g.nodes[n].id : n \in 1..Len(g.nodes)}

ran(method) == \E a \in 1..Len(applied) : applied[a].method = method

\* a stage is enabled when config.analysis asks for it and its own options
\* do not disable it
stageEnabled ==
    [extractEntities |-> configAnalysis.entities /\ nlpConfig.entityExtraction,
     analyzeSentiment |-> configAnalysis.sentiment /\ nlpConfig.sentimentAnalysis,
     modelTopics |-> configAnalysis.topics /\ nlpConfig.topicModeling,
     enhanceEventsWithGeoData |-> configAnalysis.geotagging,
     buildNetworkGraph |-> configAnalysis.network]

\* C22: at the end of a run over a non-empty list, each of the entity,
\* sentiment, topic, geo and graph stages has run iff it is enabled, the
\* events carry entities, sentiment, topics or a location only if the
\* stage that sets them is enabled, and the run has a graph only if the
\* graph stage is enabled.
C22_StageRunsIffEnabled ==
    (step = "done" /\ Len(enrichedEvents) > 0) =>
        /\ \A method \in DOMAIN stageEnabled : ran(method) <=> stageEnabled[method]
        /\ \A i \in 1..Len(enrichedEvents) :
               /\ "entities" \in DOMAIN enrichedEvents[i] => stageEnabled.extractEntities
               /\ "sentiment" \in DOMAIN enrichedEvents[i] => stageEnabled.analyzeSentiment
               /\ "topics" \in DOMAIN enrichedEvents[i] => stageEnabled.modelTopics
               /\ ("location" \in DOMAIN enrichedEvents[i] /\ "location" \notin DOMAIN collected[i]) =>
                      stageEnabled.enhanceEventsWithGeoData
        /\ networkGraph.status = "built" => stageEnabled.buildNetworkGraph

\* the two events agree on every field of the first that is not in fields,
\* and the second has no other field than those and the ones in fields
sameBut(before, after, fields) ==
    /\ DOMAIN before \subseteq DOMAIN after
    /\ DOMAIN after \subseteq DOMAIN before \cup fields
    /\ \A f \in DOMAIN before \ fields : after[f] = before[f]

\* the events after the NLP step of this run, as the Geo Tagger received them
afterNLP ==
    IF configAnalysis.entities \/ configAnalysis.sentiment \/ configAnalysis.topics
    THEN processEventsWith(collected, nlpConfig)
    ELSE collected

hasLatLng(event) == {"lat", "lng"} \subseteq DOMAIN event.metadata

\* C24: for an event that reaches the Geo Tagger without a location, lat
\* and lng of its metadata, whatever numbers they are, become the location
\* whatever else the event holds; without them the platform's geo metadata
\* decides before the entities, and a location entity before the content.
C24_ExplicitCoordinatesWin ==
    enhanced.status = "fulfilled" =>
        \A n \in 1..Len(geoEvents) :
            "location" \notin DOMAIN geoEvents[n] =>
                /\ hasLatLng(geoEvents[n]) =>
                       /\ "location" \in DOMAIN enhanced.events[n]
                       /\ enhanced.events[n].location.lat = geoEvents[n].metadata.lat
                       /\ enhanced.events[n].location.lng = geoEvents[n].metadata.lng
                /\ (~hasLatLng(geoEvents[n]) /\ extractLocationFromMetadata(geoEvents[n]) # null) =>
                       /\ "location" \in DOMAIN enhanced.events[n]
                       /\ enhanced.events[n].location = extractLocationFromMetadata(geoEvents[n])
                /\ (/\ ~hasLatLng(geoEvents[n])
                    /\ extractLocationFromMetadata(geoEvents[n]) = null
                    /\ extractLocationFromEntities(geoEvents[n]) # null) =>
                       /\ "location" \in DOMAIN enhanced.events[n]
                       /\ enhanced.events[n].location = extractLocationFromEntities(geoEvents[n])

\* the input events authored by a user
authoredBy(username) == {n \in 1..Len(networkEvents) : networkEvents[n].username = username}

\* C25: in the graph built by buildNetworkGraph every author of an input
\* event has one user node, whose weight is the number of input events the
\* user authored.
C25_AuthorWeightCountsEvents ==
    graph.status = "fulfilled" =>
        \A n \in 1..Len(networkEvents) :
            LET userId == userIdOf(networkEvents[n].username)
                userNodes == {k \in 1..Len(graph.value.nodes) : graph.value.nodes[k].id = userId}
            IN /\ Cardinality(userNodes) = 1
               /\ \A k \in userNodes :
                      /\ graph.value.nodes[k].type = "user"
                      /\ graph.value.nodes[k].weight = Cardinality(authoredBy(networkEvents[n].username))

\* C28: in the graph returned by buildNetworkGraph the source and the
\* target of every edge are ids of nodes of the graph.
C28_NoDanglingEdges ==
    graph.status = "fulfilled" =>
        \A k \in 1..Len(graph.value.edges) :
            /\ graph.value.edges[k].source \in nodeIds(graph.value)
            /\ graph.value.edges[k].target \in nodeIds(graph.value)

\* what the adapters returned, laid end to end in the order of
\* config.platforms from index i on, whatever order they finished in
RECURSIVE returnedInPlatformOrder(_)
returnedInPlatformOrder(i) ==
    IF i > Len(config.platforms) THEN <<>>
    ELSE (IF returned[config.platforms[i]].status = "fulfilled"
          THEN returned[config.platforms[i]].events ELSE <<>>)
         \o returnedInPlatformOrder(i + 1)

\* C26: the concatenated raw list and the result of buildTimeline are
\* determined by the configured platform order and each adapter's own
\* output, not by the order in which the adapter calls complete: the raw
\* list is the adapters' outputs in platform order, and the result is that
\* list put through the class's own processing.
C26_CompletionOrderIrrelevant ==
    result.status = "fulfilled" =>
        /\ instantView(allEvents) = instantView(returnedInPlatformOrder(1))
        /\ instantView(result.events) =
              instantView(IF impl = "concurrent"
                          THEN arraySort(returnedInPlatformOrder(1), "descending")
                          ELSE sortEventsByTimestamp(deduplicateEvents(
                                  normalizeTimestamps(returnedInPlatformOrder(1)))))

C26_Witness ==
    /\ impl = "concurrent"
    /\ result.status = "fulfilled"
    /\ \E i, j \in 1..Len(config.platforms), k, l \in 1..Len(completion) :
          /\ i < j /\ l < k
          /\ completion[k] = config.platforms[i]
          /\ completion[l] = config.platforms[j]
          /\ Len(returned[config.platforms[i]].events) > 0
          /\ Len(returned[config.platforms[j]].events) > 0
          /\ allEvents = returned[config.platforms[i]].events \o returned[config.platforms[j]].events

\* C27: deduplicateEvents drops an event only if an earlier event of the
\* input has the same platform, the same minute and the same lowercased
\* and trimmed content: an event whose fingerprint no earlier event shares
\* is in the output, so two events whose normalized contents differ are
\* never merged.
C27_DistinctContentsNeverMerged ==
    stage # "collect" =>
        \A j \in 1..Len(input) :
            (\A i \in 1..(j - 1) : ~sameFingerprint(input[i], input[j])) =>
                \E n \in 1..Len(deduplicated) : deduplicated[n] = input[j]

\* the sum of the counts a record of counters holds under the given keys
RECURSIVE sumCounts(_, _)
sumCounts(counters, keys) ==
    IF keys = {} THEN 0
    ELSE LET key == CHOOSE k \in keys : TRUE
         IN counters[key] + sumCounts(counters, keys \ {key})

total(counters) == sumCounts(counters, DOMAIN counters)

carrySentiment(events) == Len(SelectSeq(events, LAMBDA e : "sentiment" \in DOMAIN e))

\* C29: for every non-empty list the statistics conserve the event count:
\* totalEvents is the length of the list and the sum of the platform
\* counts, of the category counts and of each of the hour-of-day,
\* day-of-week and month histograms; the sentiment distribution is there
\* when some event carries a sentiment, and sums to the number of events
\* that carry one.
C29_CountsConserved ==
    (stats.status = "returned" /\ Len(statsEvents) > 0) =>
        /\ stats.value.totalEvents = Len(statsEvents)
        /\ total(stats.value.platforms) = Len(statsEvents)
        /\ total(stats.value.categories) = Len(statsEvents)
        /\ total(stats.value.activityByTime.hourOfDay) = Len(statsEvents)
        /\ total(stats.value.activityByTime.dayOfWeek) = Len(statsEvents)
        /\ total(stats.value.activityByTime.byMonth) = Len(statsEvents)
        /\ "sentiment" \in DOMAIN stats.value <=> carrySentiment(statsEvents) > 0
        /\ "sentiment" \in DOMAIN stats.value =>
              total(stats.value.sentiment.distribution) = carrySentiment(statsEvents)

C29_Witness ==
    /\ stats.status = "returned"
    /\ Len(statsEvents) = 2
    /\ carrySentiment(statsEvents) = 1
    /\ statsEvents[1].platform # statsEvents[2].platform
    /\ statsEvents[1].timestamp.ms # statsEvents[2].timestamp.ms
    /\ stats.value.totalEvents = 2
    /\ total(stats.value.sentiment.distribution) = 1

\* C30: for every non-empty list buildTimeline returns, the dateRange of
\* the statistics computed from it starts at the earliest timestamp of the
\* list and ends at the latest, whatever order the events were ingested
\* in: the end of the list each class reads start and end from agrees with
\* the direction that class sorts in.
C30_DateRangeEarliestToLatest ==
    (timelineStats.status = "returned" /\ Len(result.events) > 0) =>
        /\ \A n \in 1..Len(result.events) :
              /\ timelineStats.value.dateRange.start.ms <= result.events[n].timestamp.ms
              /\ timelineStats.value.dateRange.end.ms >= result.events[n].timestamp.ms
        /\ \E n \in 1..Len(result.events) :
              timelineStats.value.dateRange.start = result.events[n].timestamp
        /\ \E n \in 1..Len(result.events) :
              timelineStats.value.dateRange.end = result.events[n].timestamp

C30_Witness ==
    /\ timelineStats.status = "returned"
    /\ impl = "concurrent"
    /\ Len(allEvents) = 2
    /\ allEvents[1].timestamp.ms < allEvents[2].timestamp.ms
    /\ timelineStats.value.dateRange.start = allEvents[1].timestamp
    /\ timelineStats.value.dateRange.end = allEvents[2].timestamp

====
